---------------------------- MODULE Spec2Model ----------------------------
(***************************************************************************)
(* KipDB LSM storage engine: MemTable, WAL, SSTables, Version / Cleaner,   *)
(* Compactor and Transaction, as a state machine.                          *)
(*                                                                         *)
(* User keys are byte strings ordered lexicographically; only their order  *)
(* is used by the engine code modelled here, so keys are the integers      *)
(* 1..MaxKey under <.  Values are byte sequences.  A stored value is an    *)
(* Option: Some(bytes) or None (a tombstone).                              *)
(***************************************************************************)
EXTENDS Integers, Sequences, FiniteSets, TLC

(***************************************************************************)
(* Bounds of the model                                                     *)
(***************************************************************************)
MaxKey == 2
\* the greatest id (seq_id or gen) the generator hands out
MaxClock == 16
\* the number of records written to the WAL
MaxRecords == 4
\* the number of MemTable swaps
MaxFlush == 4
\* the number of records written where every value and remove is tried
MaxStoreRecords == 3
\* the number of MemTable swaps where every value and remove is tried
MaxStoreFlush == 3
\* the number of Transactions begun
MaxTxn == 1
MaxReaders == 1
\* Flush requests sent to the compactor
MaxFlushReqs == 2
\* snapshots a reader takes next to a commit
MaxSnapshots == 2
\* entries of a Cleaner queue drained at the close
MaxQueue == 3
\* concurrent callers of log_and_apply
MaxCallers == 2
\* SSTs per level of a drawn layout, and the levels that hold SSTs
MaxLevelSsts == 2
MaxLayoutLevel == 2
\* keys of the layouts a major compaction is run on
MaxLayoutKey == 3
\* the levels major_compaction is called with
MaxCallLevel == 8
\* calls of major_compaction that publish a Version
MaxMajorCalls == 1
\* keys of the scopes Scope::meet is applied to
MaxScopeKey == 5
\* flushes on a store opened with several SSTs in level 0
MaxLevel0Flush == 2
\* writes and flushes next to failing compactions
MaxFailRecords == 2
MaxFailFlush == 2
\* the store's own writes next to a reading Transaction
MaxRepeatRecords == 1
\* flushes whose swap and WAL switch are apart
MaxSwitchFlush == 2
\* a store written, flushed, stopped and opened again
MaxReloadSets == 3
MaxReloadFlush == 2
\* IoFactory: writers alive at a time, gens, bytes per file
MaxWriters == 2
MaxIoGen == 2
MaxIoLen == 1

(***************************************************************************)
(* Program constants and configuration                                     *)
(***************************************************************************)
\* pub(crate) type LevelSlice = [Vec<Scope>; 7]
NumLevels == 7
LEVEL_0 == 0
\* Config.major_threshold_with_sst_size
major_threshold_with_sst_size == 1
\* Config.level_sst_magnification
level_sst_magnification == 3
\* Config.major_select_file_size
major_select_file_size == 2
\* Config.sst_file_size, counted in entries
sst_file_size == 1
\* Config.minor_threshold_with_len
minor_threshold_with_len == 2
\* Config.wal_enable
wal_enable == TRUE

Keys == 1..MaxKey
Bytes == {<<>>, <<1>>, <<2>>}
Levels == 0..(NumLevels - 1)

Some(b) == [some |-> TRUE, bytes |-> b]
None == [some |-> FALSE, bytes |-> <<>>]
OptValues == {Some(b) : b \in Bytes} \cup {None}

VARIABLES
    mem,        \* MemTable.inner.mem: set of [key, seq, val]
    immut,      \* MemTable.inner.immut: set of [key, seq, val] ({} = None)
    clock,      \* Config.create_gen: the monotonic id generator
    wal,        \* WAL segments: gen -> sequence of [key, val]
    walGen,     \* gen of the active WAL segment
    sstFiles,   \* SST files on disk: gen -> [level, data: key -> encoded value]
    loader,     \* SSTableLoader: set of gens in the map
    versions,   \* live Version objects: id -> [num, level_slice]
    current,    \* VersionInner.version: id of the current Version
    refs,       \* id -> number of Arc<Version> clones held by readers
    chan,       \* Cleaner.tag_rx: CleanTags in flight
    del_gens,   \* Cleaner.del_gens: sequence of [num, gens]
    verLog,     \* version log: sequence of VersionEdits
    cpc,        \* position of the compactor task in check_then_compaction
    ctask,      \* locals of the compactor task
    txn,        \* the Transaction, if one is alive
    lastMut,    \* per key, the most recent committed mutation
    lastRes,    \* result of the last remove call
    bkv,        \* block.rs: the key-values and the BlockOptions of the builder
    blk,        \* block.rs: BlockBuilder.vec_block, the Blocks built
    bbuf,       \* block.rs: the bytes produced by Block::encode
    bdec,       \* block.rs: the result of Block::decode
    sst,        \* ss_table.rs: the SSTable under test, file and handle
    sq,         \* ss_table.rs: the last query_with_key and its result
    flushQ,     \* the compactor's task channel: ids of the Flush requests queued
    done,       \* per Flush request, its oneshot done channel
    ctx,        \* option_tx of the running check_then_compaction (0 = None)
    cmt,        \* mvcc.rs: the position of a running commit, and a snapshot reader
    run,        \* which of VersionStatus and the Cleaner task are still alive
    la,         \* per caller of log_and_apply, its position and its locals
    rec,        \* lsm_kv.rs: a store with its WAL, stopped and opened again
    io          \* io/mod.rs: an IoFactory, its directory and the writers handed out

vars == <<mem, immut, clock, wal, walGen, sstFiles, loader, versions, current,
          refs, chan, del_gens, verLog, cpc, ctask, txn, lastMut, lastRes,
          bkv, blk, bbuf, bdec, sst, sq, flushQ, done, ctx, io, cmt, run, la,
          rec>>

\* the state of the LSM store
storeVars == <<mem, immut, clock, wal, walGen, sstFiles, loader, versions,
               current, refs, chan, del_gens, verLog, cpc, ctask, txn,
               lastMut, lastRes, flushQ, done, ctx, cmt, run, la>>
\* the state of the scenarios on single components
unitVars == <<bkv, blk, bbuf, bdec, sst, sq, io, rec>>

memVars == <<mem, immut>>
walVars == <<wal, walGen>>
sstVars == <<sstFiles, loader>>
verVars == <<versions, current, refs>>
cleanVars == <<chan, del_gens>>
compVars == <<cpc, ctask>>
ghostVars == <<lastMut, lastRes>>
reqVars == <<flushQ, done, ctx>>

(***************************************************************************)
(* Sequence helpers                                                        *)
(***************************************************************************)
Range(s) == {s[i] : i \in DOMAIN s}

RECURSIVE SeqFilter(_, _)
SeqFilter(s, keep) ==
    IF s = <<>> THEN <<>>
    ELSE (IF Head(s) \in keep THEN <<Head(s)>> ELSE <<>>) \o SeqFilter(Tail(s), keep)

RECURSIVE SortedSeq(_)
\* the elements of a finite set of integers in ascending order
SortedSeq(S) ==
    IF S = {} THEN <<>>
    ELSE LET m == CHOOSE x \in S : \A y \in S : x <= y
         IN <<m>> \o SortedSeq(S \ {m})

SetMin(S) == CHOOSE x \in S : \A y \in S : x <= y
SetMax(S) == CHOOSE x \in S : \A y \in S : x >= y

Without(f, x) == [y \in DOMAIN f \ {x} |-> f[y]]

Take(s, n) == SubSeq(s, 1, IF n < Len(s) THEN n ELSE Len(s))

Reverse(s) == [i \in 1..Len(s) |-> s[Len(s) + 1 - i]]

InsertAt(s, idx, e) ==
    \* Vec::insert(idx, e), idx counted from 0
    SubSeq(s, 1, idx) \o <<e>> \o SubSeq(s, idx + 1, Len(s))

(***************************************************************************)
(* block.rs: the Value item codec                                          *)
(***************************************************************************)
\* impl From<Option<Vec<u8>>> for Value
ValueFrom(opt) ==
    [value_len |-> IF opt.some THEN Len(opt.bytes) ELSE 0,
     bytes |-> opt]

\* impl BlockItem for Value: encode = varint(value_len) | bytes?
ValueEncode(v) ==
    <<v.value_len>> \o (IF v.bytes.some THEN v.bytes.bytes ELSE <<>>)

\* impl BlockItem for Value: decode reads the bytes only when value_len > 0
ValueDecode(buf) ==
    LET value_len == buf[1]
    IN [value_len |-> value_len,
        bytes |-> IF value_len > 0 THEN Some(SubSeq(buf, 2, 1 + value_len))
                  ELSE None]

(***************************************************************************)
(* block.rs: Block<T>, its entries and its codec.  A byte string is a      *)
(* sequence of integers 0..255.  The index the source stores next to each  *)
(* entry is its position in vec_entry, counted from 0.                     *)
(***************************************************************************)
CRC_SIZE == 4

DEFAULT_BLOCK_SIZE == 4096

RECURSIVE BytesCmp(_, _)
\* Ord for [u8]: -1 is Less, 0 Equal, 1 Greater
BytesCmp(a, b) ==
    IF a = <<>> THEN (IF b = <<>> THEN 0 ELSE -1)
    ELSE IF b = <<>> THEN 1
    ELSE IF Head(a) < Head(b) THEN -1
    ELSE IF Head(a) > Head(b) THEN 1
    ELSE BytesCmp(Tail(a), Tail(b))

RECURSIVE Flatten(_)
Flatten(ss) == IF ss = <<>> THEN <<>> ELSE Head(ss) \o Flatten(Tail(ss))

RECURSIVE write_varint(_)
\* integer_encoding: seven bits a byte, the low ones first
write_varint(n) ==
    IF n < 128 THEN <<n>> ELSE <<128 + (n % 128)>> \o write_varint(n \div 128)

RECURSIVE read_varint(_)
\* [ok, value, rest]; the end of the input inside a varint is an error
read_varint(buf) ==
    IF buf = <<>> THEN [ok |-> FALSE, value |-> 0, rest |-> <<>>]
    ELSE IF Head(buf) < 128
         THEN [ok |-> TRUE, value |-> Head(buf), rest |-> Tail(buf)]
         ELSE LET r == read_varint(Tail(buf))
              IN [ok |-> r.ok,
                  value |-> (Head(buf) - 128) + 128 * r.value,
                  rest |-> r.rest]

\* let mut v = vec![0u8; n]; reader.read(&mut v): the bytes left, at most n,
\* the rest of v stays zero
ReadInto(buf, n) ==
    LET got == IF n < Len(buf) THEN n ELSE Len(buf)
    IN [bytes |-> SubSeq(buf, 1, got) \o [i \in 1..(n - got) |-> 0],
        rest |-> SubSeq(buf, got + 1, Len(buf))]

RECURSIVE XorBits(_, _)
XorBits(a, b) ==
    IF a = 0 THEN b
    ELSE IF b = 0 THEN a
    ELSE ((a + b) % 2) + 2 * XorBits(a \div 2, b \div 2)

\* exclusive or of two hexadecimal digits
XorDigit == [a \in 0..15 |-> [b \in 0..15 |-> XorBits(a, b)]]

\* bitwise exclusive or of two 16-bit naturals, digit by digit
Xor(a, b) ==
    XorDigit[a % 16][b % 16]
        + 16 * XorDigit[(a \div 16) % 16][(b \div 16) % 16]
        + 256 * XorDigit[(a \div 256) % 16][(b \div 256) % 16]
        + 4096 * XorDigit[a \div 4096][b \div 4096]

\* crc32fast: one bit of the reflected CRC-32 (polynomial EDB88320); the
\* 32-bit register is kept as two 16-bit halves
CrcBit(c) ==
    LET hi == c.hi \div 2
        lo == (c.lo \div 2) + (c.hi % 2) * 32768
    IN IF c.lo % 2 = 1
       THEN [hi |-> Xor(hi, 60856), lo |-> Xor(lo, 33568)]
       ELSE [hi |-> hi, lo |-> lo]

RECURSIVE CrcBits(_, _)
\* n bits of the register; the set binds the register to its value
CrcBits(c, n) ==
    IF n = 0 THEN c
    ELSE CHOOSE r \in {CrcBits(y, n - 1) : y \in {CrcBit(c)}} : TRUE

CrcByte(c, b) == CrcBits([hi |-> c.hi, lo |-> Xor(c.lo, b)], 8)

RECURSIVE CrcUpdate(_, _)
CrcUpdate(c, buf) ==
    IF buf = <<>> THEN c
    ELSE CHOOSE r \in {CrcUpdate(y, Tail(buf)) : y \in {CrcByte(c, Head(buf))}} :
             TRUE

\* crc32fast::hash
crc32(buf) ==
    LET c == CrcUpdate([hi |-> 65535, lo |-> 65535], buf)
    IN [hi |-> 65535 - c.hi, lo |-> 65535 - c.lo]

\* bincode::serialize::<u32>: four bytes, little endian
U32Bytes(c) == <<c.lo % 256, c.lo \div 256, c.hi % 256, c.hi \div 256>>

\* bincode::deserialize::<u32>
U32From(b) == [hi |-> b[3] + 256 * b[4], lo |-> b[1] + 256 * b[2]]

\* impl BlockItem for Index
IndexNew(offset, len) == [offset |-> offset, len |-> len]

IndexEncode(i) == write_varint(i.offset) \o write_varint(i.len)

\* BlockItem::encode of the entry's item, a Value or an Index
ItemEncode(item) ==
    IF "offset" \in DOMAIN item THEN IndexEncode(item) ELSE ValueEncode(item)

\* BlockItem::decode from a reader: [ok, item, rest]
ItemDecode(kind, buf) ==
    IF kind = "Index"
    THEN LET o == read_varint(buf)
             l == read_varint(o.rest)
         IN [ok |-> o.ok /\ l.ok, item |-> IndexNew(o.value, l.value),
             rest |-> l.rest]
    ELSE LET n == read_varint(buf)
             r == ReadInto(n.rest, n.value)
         IN [ok |-> n.ok,
             item |-> [value_len |-> n.value,
                       bytes |-> IF n.value > 0 THEN Some(r.bytes) ELSE None],
             rest |-> IF n.value > 0 THEN r.rest ELSE n.rest]

\* Entry::new
EntryNew(shared_len, unshared_len, key, item) ==
    [unshared_len |-> unshared_len, shared_len |-> shared_len,
     key |-> key, item |-> item]

\* Entry::encode
EntryEncode(e) ==
    write_varint(e.unshared_len) \o write_varint(e.shared_len)
        \o e.key \o ItemEncode(e.item)

RECURSIVE decode_with_cursor(_, _)
\* Entry::decode_with_cursor: [ok, vec_entry]
decode_with_cursor(kind, buf) ==
    IF buf = <<>> THEN [ok |-> TRUE, vec_entry |-> <<>>]
    ELSE LET u == read_varint(buf)
             s == read_varint(u.rest)
             k == ReadInto(s.rest, u.value)
             i == ItemDecode(kind, k.rest)
         IN IF ~(u.ok /\ s.ok /\ i.ok) THEN [ok |-> FALSE, vec_entry |-> <<>>]
            ELSE LET r == decode_with_cursor(kind, i.rest)
                 IN [ok |-> r.ok,
                     vec_entry |-> IF r.ok
                                   THEN <<EntryNew(s.value, u.value, k.bytes, i.item)>>
                                            \o r.vec_entry
                                   ELSE <<>>]

\* is_common_prefix of longest_shared_len
is_common_prefix(keys, len) ==
    \A j \in 2..Len(keys) : \A i \in 1..len : keys[1][i] = keys[j][i]

RECURSIVE LongestSearch(_, _, _)
\* the loop of longest_shared_len
LongestSearch(keys, low, high) ==
    IF low >= high THEN low
    ELSE LET mid == ((high - low + 1) \div 2) + low
         IN IF is_common_prefix(keys, mid) THEN LongestSearch(keys, mid, high)
            ELSE LongestSearch(keys, low, mid - 1)

\* longest_shared_len over the keys of one restart group
longest_shared_len(keys) ==
    IF keys = <<>> THEN 0
    ELSE LongestSearch(keys, 0, SetMin({Len(keys[i]) : i \in DOMAIN keys}))

\* sharding_shared_len: group number (from 0) -> shared length
sharding_shared_len(vec_kv, restart_interval) ==
    [g \in 0..((Len(vec_kv) + restart_interval - 1) \div restart_interval) - 1 |->
        longest_shared_len(
            [j \in 1..(IF (g + 1) * restart_interval < Len(vec_kv)
                       THEN restart_interval
                       ELSE Len(vec_kv) - g * restart_interval) |->
                vec_kv[g * restart_interval + j].key])]

\* Block::new: prefix compression inside each restart group
BlockNew(vec_kv, restart_interval) ==
    LET vec_sharding_len == sharding_shared_len(vec_kv, restart_interval)
    IN [restart_interval |-> restart_interval,
        vec_entry |->
            [i \in 1..Len(vec_kv) |->
                LET index == i - 1
                    key == vec_kv[i].key
                    shared_len == IF index % restart_interval = 0 THEN 0
                                  ELSE vec_sharding_len[index \div restart_interval]
                IN EntryNew(shared_len, Len(key) - shared_len,
                            SubSeq(key, shared_len + 1, Len(key)),
                            vec_kv[i].item)]]

\* Block::shared_key_prefix (index from 0)
shared_key_prefix(block, index, shared_len) ==
    SubSeq(block.vec_entry[index - (index % block.restart_interval) + 1].key,
           1, shared_len)

EntryCmpSuffix(block, index, key) ==
    0 - BytesCmp(key, block.vec_entry[index + 1].key)

\* the closure of Block::binary_search: the order of the entry against key
EntryCmp(block, index, key) ==
    LET entry == block.vec_entry[index + 1]
        c == IF entry.shared_len > 0
             THEN LET shared_len == IF entry.shared_len < Len(key)
                                    THEN entry.shared_len ELSE Len(key)
                      p == BytesCmp(SubSeq(key, 1, shared_len),
                                    shared_key_prefix(block, index, shared_len))
                  IN IF p # 0 THEN p
                     ELSE BytesCmp(SubSeq(key, shared_len + 1, Len(key)), entry.key)
             ELSE BytesCmp(key, entry.key)
    IN 0 - c

RECURSIVE BlockSearch(_, _, _, _)
\* slice::binary_search_by over vec_entry: [ok, index]
BlockSearch(block, key, left, right) ==
    IF left >= right THEN [ok |-> FALSE, index |-> left]
    ELSE LET mid == left + ((right - left) \div 2)
             c == EntryCmp(block, mid, key)
         IN IF c < 0 THEN BlockSearch(block, key, mid + 1, right)
            ELSE IF c > 0 THEN BlockSearch(block, key, left, mid)
            ELSE [ok |-> TRUE, index |-> mid]

\* Block::binary_search
block_binary_search(block, key) ==
    BlockSearch(block, key, 0, Len(block.vec_entry))

\* Block<Value>::find
find(block, key) ==
    LET r == block_binary_search(block, key)
    IN IF r.ok THEN block.vec_entry[r.index + 1].item.bytes ELSE None

\* Block::find_with_upper: vec_entry[index] panics when the key is greater
\* than every key of the block
find_with_upper(block, key) ==
    LET index == block_binary_search(block, key).index
    IN IF index < Len(block.vec_entry)
       THEN [panic |-> FALSE, item |-> block.vec_entry[index + 1].item]
       ELSE [panic |-> TRUE, item |-> IndexNew(0, 0)]

\* Block::to_raw
to_raw(block) ==
    LET bytes_block ==
            write_varint(block.restart_interval)
                \o Flatten([i \in DOMAIN block.vec_entry |->
                               EntryEncode(block.vec_entry[i])])
    IN bytes_block \o U32Bytes(crc32(bytes_block))

Ok(v) == [ok |-> TRUE, err |-> "", value |-> v]
Err(e) == [ok |-> FALSE, err |-> e, value |-> <<>>]

\* Block::from_raw.  A buffer shorter than CRC_SIZE makes buf.len() - CRC_SIZE
\* underflow: a panic.
from_raw(kind, buf) ==
    IF Len(buf) < CRC_SIZE THEN Err("panic")
    ELSE LET date_bytes_len == Len(buf) - CRC_SIZE
             stored == U32From(SubSeq(buf, date_bytes_len + 1, Len(buf)))
         IN \* if crc32fast::hash(&buf) == deserialize(&buf[date_bytes_len..])
            IF crc32(buf) = stored THEN Err("CrcMisMatch")
            ELSE LET data == SubSeq(buf, 1, date_bytes_len)
                     ri == read_varint(data)
                     es == decode_with_cursor(kind, ri.rest)
                 IN IF ~ri.ok \/ ~es.ok THEN Err("Io")
                    ELSE Ok([restart_interval |-> ri.value,
                             vec_entry |-> es.vec_entry])

\* the lz4 frame: the magic number 184D2204, then the payload (the
\* compression of the payload is the library's and is not modelled)
Lz4Magic == <<4, 34, 77, 24>>

Lz4Encode(buf) == Lz4Magic \o buf

Lz4Decode(buf) ==
    IF Len(buf) >= 4 /\ SubSeq(buf, 1, 4) = Lz4Magic
    THEN Ok(SubSeq(buf, 5, Len(buf)))
    ELSE Err("Io")

\* Block::encode
encode(block, compress_type) ==
    IF compress_type = "LZ4" THEN Lz4Encode(to_raw(block)) ELSE to_raw(block)

\* Block::decode
decode(kind, buf, compress_type) ==
    IF compress_type = "LZ4"
    THEN LET d == Lz4Decode(buf)
         IN IF d.ok THEN from_raw(kind, d.value) ELSE d
    ELSE from_raw(kind, buf)

DEFAULT_INDEX_RESTART_INTERVAL == 2

\* key_value_bytes_len
key_value_bytes_len(kv) ==
    Len(kv.key) + (IF kv.item.bytes.some THEN Len(kv.item.bytes.bytes) ELSE 0)

\* BlockBuilder::new
BlockBuilderNew(options) ==
    [options |-> options, len |-> 0,
     buf |-> [bytes_size |-> 0, vec_key_value |-> <<>>],
     vec_block |-> <<>>]

\* BlockBuilder::build_: BlockBuf::flush, then Block::new over the key-values
build_(b) ==
    LET vec_kv == b.buf.vec_key_value
    IN IF vec_kv = <<>> THEN [b EXCEPT !.buf.bytes_size = 0]
       ELSE [b EXCEPT
                !.buf = [bytes_size |-> 0, vec_key_value |-> <<>>],
                !.vec_block =
                    Append(@, [block |-> BlockNew(vec_kv, b.options.data_restart_interval),
                               last_key |-> vec_kv[Len(vec_kv)].key])]

\* BlockBuilder::add (BlockBuf::add asserts that the key is greater than
\* the last one of the buffer; the callers here add ascending keys)
BuilderAdd(b, kv) ==
    LET b1 == [b EXCEPT !.buf.bytes_size = @ + key_value_bytes_len(kv),
                        !.buf.vec_key_value = Append(@, kv),
                        !.len = @ + 1]
    IN IF b1.buf.bytes_size >= b1.options.block_size THEN build_(b1) ELSE b1

RECURSIVE BuilderAddAll(_, _)
BuilderAddAll(b, vec_kv) ==
    IF vec_kv = <<>> THEN b
    ELSE BuilderAddAll(BuilderAdd(b, Head(vec_kv)), Tail(vec_kv))

RECURSIVE IndexEntries(_, _, _)
\* BlockBuilder::build: (last_key, Index::new(offset, len)) of every block
IndexEntries(vec_bytes, last_keys, offset) ==
    IF vec_bytes = <<>> THEN <<>>
    ELSE <<[key |-> Head(last_keys),
            item |-> IndexNew(offset, Len(Head(vec_bytes)))]>>
             \o IndexEntries(Tail(vec_bytes), Tail(last_keys),
                             offset + Len(Head(vec_bytes)))

\* BlockBuilder::build: the bytes of the data blocks and of the index block
build(b) ==
    LET vec_block == build_(b).vec_block
        vec_bytes == [i \in DOMAIN vec_block |->
                         encode(vec_block[i].block, b.options.compress_type)]
        vec_index == IndexEntries(vec_bytes,
                                  [i \in DOMAIN vec_block |-> vec_block[i].last_key],
                                  0)
    IN [blocks_bytes |-> Flatten(vec_bytes),
        indexes_bytes |-> encode(BlockNew(vec_index, b.options.index_restart_interval),
                                 "None")]

NoBuf == [set |-> FALSE]
NoResult == [set |-> FALSE]

(***************************************************************************)
(* ss_table.rs: Scope                                                      *)
(***************************************************************************)
\* Scope::from_vec_data
ScopeFromData(gen, data) ==
    [start |-> SetMin(DOMAIN data), end |-> SetMax(DOMAIN data), gen |-> gen]

\* Scope::fusion (callers pass a non-empty set)
fusion(scopes) ==
    [start |-> SetMin({s.start : s \in scopes}),
     end |-> SetMax({s.end : s \in scopes}),
     gen |-> 0]

\* Scope::meet
meet(self, target) ==
    \/ (self.start <= target.start /\ self.end >= target.start)
    \/ (self.start <= target.end /\ self.end >= target.end)

\* Scope::meet_with_key
meet_with_key(self, key) == self.start <= key /\ self.end >= key


(***************************************************************************)
(* version.rs: VersionEdit and Version                                     *)
(***************************************************************************)
NewFile(scopes, level, index) ==
    [type |-> "NewFile", scopes |-> scopes, gens |-> <<>>,
     level |-> level, index |-> index]

DeleteFile(gens, level) ==
    [type |-> "DeleteFile", scopes |-> <<>>, gens |-> gens,
     level |-> level, index |-> 0]

\* Version::level_slice_new
level_slice_new == [l \in Levels |-> <<>>]

\* Version::new
VersionNew == [num |-> 0, level_slice |-> level_slice_new, len |-> 0]

ScopeGens(scopes) == {scopes[i].gen : i \in DOMAIN scopes}

RECURSIVE SortByGen(_)
\* sorted_by_key(Scope::get_gen) over the scopes of one NewFile
SortByGen(S) ==
    IF S = {} THEN <<>>
    ELSE LET m == CHOOSE x \in S : \A y \in S : x.gen <= y.gen
         IN <<m>> \o SortByGen(S \ {m})

RECURSIVE InsertAll(_, _, _)
\* for scope in rev-sorted scopes { level.insert(index, scope) }
InsertAll(lv, index, scopes) ==
    IF scopes = <<>> THEN lv
    ELSE InsertAll(InsertAt(lv, index, Head(scopes)), index, Tail(scopes))

NewFileL0Front(lv, edit) == SortByGen(Range(edit.scopes)) \o lv

\* Version::apply, the NewFile arm for level 0: push in gen order
NewFileL0(lv, edit) == lv \o SortByGen(Range(edit.scopes))

\* Version::apply, the NewFile arm for level > 0
NewFileLN(lv, edit) ==
    InsertAll(lv, edit.index, Reverse(SortByGen(Range(edit.scopes))))

\* Version::apply, the DeleteFile arm: level.retain(gen not in vec_gen)
RetainNot(lv, gens) ==
    SeqFilter(lv, {sc \in Range(lv) : sc.gen \notin Range(gens)})

\* Version::apply: the statistics of an edit need every gen in the loader
\* (VersionMeta::statistical_process fails with SSTableLost otherwise)
EditGens(edit) ==
    IF edit.type = "NewFile" THEN ScopeGens(edit.scopes) ELSE Range(edit.gens)

ApplyFails(edits, ld) ==
    \E i \in DOMAIN edits : ~(EditGens(edits[i]) \subseteq ld)

RECURSIVE ApplyEdits(_, _, _)
\* Version::apply, the loop over the edits: the level layout and del_gens
ApplyEdits(ls, del, edits) ==
    IF edits = <<>> THEN [level_slice |-> ls, del |-> del]
    ELSE LET e == Head(edits)
             lv == ls[e.level]
         IN IF e.type = "DeleteFile"
            THEN ApplyEdits([ls EXCEPT ![e.level] = RetainNot(lv, e.gens)],
                            del \o e.gens, Tail(edits))
            ELSE ApplyEdits([ls EXCEPT ![e.level] =
                                 IF e.level = LEVEL_0 THEN NewFileL0(lv, e)
                                 ELSE NewFileLN(lv, e)],
                            del, Tail(edits))

\* Version::get_index
get_index(version, level, source_gen) ==
    LET lv == version.level_slice[level]
        hits == {i \in DOMAIN lv : lv[i].gen = source_gen}
    IN IF hits = {} THEN -1 ELSE SetMin(hits) - 1

\* SSTable::find_index_with_level; first = -1 stands for Option::None
find_index_with_level(first, version, level) ==
    IF first = -1 THEN 0
    ELSE LET i == get_index(version, level, first)
         IN IF i = -1 THEN 0 ELSE i

RECURSIVE Pow(_, _)
Pow(b, e) == IF e = 0 THEN 1 ELSE b * Pow(b, e - 1)

\* Version::is_threshold_exceeded_major
is_threshold_exceeded_major(version, level) ==
    Len(version.level_slice[level]) >=
        major_threshold_with_sst_size * Pow(level_sst_magnification, level)

\* Version::first_ss_tables: the first `size` scopes whose SST the loader holds
first_ss_tables(version, level, size, ld) ==
    LET lv == Take(version.level_slice[level], size)
    IN SeqFilter(lv, {sc \in Range(lv) : sc.gen \in ld})

\* Version::get_meet_scope_ss_tables_with_scopes
get_meet_scope_ss_tables(version, level, target, ld) ==
    LET lv == version.level_slice[level]
    IN SeqFilter(lv, {sc \in Range(lv) : meet(sc, target) /\ sc.gen \in ld})

(***************************************************************************)
(* Read path: ss_table.rs query_with_key, version.rs find_data_for_ss_tables*)
(***************************************************************************)
\* SSTable::query_with_key: bloom filter, index block, data block, then
\* Block::find, which returns item.bytes (None for a tombstone)
query_with_key(files, gen, key) ==
    LET data == files[gen].data
    IN IF key \in DOMAIN data THEN ValueDecode(data[key]).bytes ELSE None

RECURSIVE binary_search(_, _, _, _)
\* slice::binary_search_by(|scope| scope.start.cmp(key)): [ok, index]
binary_search(lv, key, left, right) ==
    IF left >= right THEN [ok |-> FALSE, index |-> left]
    ELSE LET mid == left + ((right - left) \div 2)
             start == lv[mid + 1].start
         IN IF start < key THEN binary_search(lv, key, mid + 1, right)
            ELSE IF start > key THEN binary_search(lv, key, left, mid)
            ELSE [ok |-> TRUE, index |-> mid]

\* Version::query_meet_index: unwrap_or_else(|index| index.saturating_sub(1))
query_meet_index(version, key, level) ==
    LET lv == version.level_slice[level]
        r == binary_search(lv, key, 0, Len(lv))
    IN IF r.ok THEN r.index
       ELSE IF r.index = 0 THEN 0 ELSE r.index - 1

\* the level 0 loop of find_data_for_ss_tables: newest to oldest, a hit is a
\* query that returns Some
FindLevel0(version, key, ld, files) ==
    LET lv == version.level_slice[LEVEL_0]
        hits == {i \in DOMAIN lv :
                    /\ meet_with_key(lv[i], key)
                    /\ lv[i].gen \in ld
                    /\ query_with_key(files, lv[i].gen, key).some}
    IN IF hits = {} THEN None
       ELSE query_with_key(files, lv[SetMax(hits)].gen, key)

\* the level 1..6 loop of find_data_for_ss_tables: the first level that has a
\* scope at the offset decides the result
FindLevelN(version, key, ld, files) ==
    LET nonEmpty == {l \in 1..(NumLevels - 1) : version.level_slice[l] # <<>>}
    IN IF nonEmpty = {} THEN None
       ELSE LET level == SetMin(nonEmpty)
                offset == query_meet_index(version, key, level)
                scope == version.level_slice[level][offset + 1]
            IN IF scope.gen \in ld THEN query_with_key(files, scope.gen, key)
               ELSE None

\* Version::find_data_for_ss_tables
find_data_for_ss_tables(version, key, ld, files) ==
    LET r0 == FindLevel0(version, key, ld, files)
    IN IF r0.some THEN r0 ELSE FindLevelN(version, key, ld, files)

(***************************************************************************)
(* MemTable                                                                *)
(***************************************************************************)
\* the newest entry of `key` in one table with seq_id <= seq
TableFind(table, key, seq) ==
    LET hits == {e \in table : e.key = key /\ e.seq <= seq}
    IN IF hits = {} THEN [found |-> FALSE, val |-> None]
       ELSE [found |-> TRUE,
             val |-> (CHOOSE e \in hits : \A f \in hits : f.seq <= e.seq).val]

\* MemTable::find: mem first, then immut
MemFind(m, im, key, seq) ==
    LET r == TableFind(m, key, seq)
    IN IF r.found THEN r ELSE TableFind(im, key, seq)

\* MemTable::swap: the entries handed to the Compactor, newest per key
SwapValues(m) ==
    [k \in {e.key : e \in m} |-> TableFind(m, k, MaxClock + 1).val]

SwapLastSeq(m) == SetMax({e.seq : e \in m})

(***************************************************************************)
(* lsm_kv.rs: the store's get                                              *)
(***************************************************************************)
\* LsmStore::get: a MemTable hit is returned unpacked (a Remove gives None),
\* otherwise the SSTables of the current Version are searched
Get(key) ==
    LET r == MemFind(mem, immut, key, MaxClock + 1)
    IN IF r.found THEN r.val
       ELSE find_data_for_ss_tables(versions[current], key, loader, sstFiles)

(***************************************************************************)
(* compactor.rs: data loading, merge and sharding                          *)
(***************************************************************************)
RECURSIVE Unique(_)
\* Itertools::unique / unique_by: the first occurrence of each gen is kept
Unique(s) ==
    IF s = <<>> THEN <<>>
    ELSE <<Head(s)>> \o Unique(SeqFilter(Tail(s), Range(Tail(s)) \ {Head(s)}))

\* SSTable::collect_gen
collect_gen(scopes) == Unique([i \in DOMAIN scopes |-> scopes[i].gen])

\* the encoded item stored in an SST for the value `opt`
EncodeOpt(opt) == ValueEncode(ValueFrom(opt))

\* SSTable::create_for_mem_table: the file written for `values` (key -> Option)
SstFile(level, values) ==
    [level |-> level, data |-> [k \in DOMAIN values |-> EncodeOpt(values[k])]]

\* SSTable::all: every entry of the table, decoded
SstAll(files, gen) ==
    [k \in DOMAIN files[gen].data |-> ValueDecode(files[gen].data[k]).bytes]

\* Compactor::data_merge_and_sharding up to the sharding: tables sorted by gen,
\* flattened, reversed, unique by key: per key the entry of the table with the
\* greatest gen
data_merge(files, gens) ==
    LET keys == UNION {DOMAIN files[g].data : g \in gens}
    IN [k \in keys |->
           SstAll(files, SetMax({g \in gens : k \in DOMAIN files[g].data}))[k]]

RECURSIVE data_sharding(_, _)
\* data_sharding: consecutive runs of sst_file_size entries in key order
data_sharding(keys, size) ==
    IF Len(keys) <= size THEN <<Range(keys)>>
    ELSE <<Range(SubSeq(keys, 1, size))>>
             \o data_sharding(SubSeq(keys, size + 1, Len(keys)), size)

\* Compactor::data_loading_with_level returns Ok(None)
LoadingNone(version, level) ==
    \/ level > 5
    \/ ~is_threshold_exceeded_major(version, level)
    \/ version.level_slice[level] = <<>>

\* Compactor::data_loading_with_level, the Some branch; `kind` is "Err" when
\* Scope::fusion fails with DataEmpty
data_loading_with_level(version, level, ld, files) ==
    LET first == first_ss_tables(version, level, major_select_file_size, ld)
    IN IF first = <<>>
       THEN [kind |-> "Err", index |-> 0, del_gen_l |-> <<>>,
             del_gen_ll |-> <<>>, merged |-> <<>>, final |-> <<>>]
       ELSE
         LET scope_l == fusion(Range(first))
             vec_ss_table_ll == get_meet_scope_ss_tables(version, level + 1, scope_l, ld)
             index == find_index_with_level(
                          IF vec_ss_table_ll = <<>> THEN -1 ELSE vec_ss_table_ll[1].gen,
                          version, level + 1)
             vec_ss_table_l ==
                 IF level = LEVEL_0
                 THEN first \o get_meet_scope_ss_tables(version, level, scope_l, ld)
                 ELSE first
             upper ==
                 IF vec_ss_table_ll # <<>>
                 THEN get_meet_scope_ss_tables(version, level,
                                               fusion(Range(vec_ss_table_ll)), ld)
                 ELSE vec_ss_table_l
             vec_ss_table_final == collect_gen(upper \o vec_ss_table_ll)
         IN [kind |-> "Some",
             index |-> index,
             del_gen_l |-> collect_gen(vec_ss_table_l),
             del_gen_ll |-> collect_gen(vec_ss_table_ll),
             merged |-> data_merge(files, Range(vec_ss_table_final)),
             final |-> vec_ss_table_final]

\* the level the second DeleteFile of one major step names
DeleteLevelLL(level) == level

(***************************************************************************)
(* version.rs: running statistics and the Cleaner                          *)
(***************************************************************************)
SstLen(files, gen) == Cardinality(DOMAIN files[gen].data)

RECURSIVE SumLen(_, _)
SumLen(files, gens) ==
    IF gens = <<>> THEN 0
    ELSE SstLen(files, Head(gens)) + SumLen(files, Tail(gens))

RECURSIVE ApplyLen(_, _, _)
\* apply_add / apply_del_on_running over the edits: meta_data.len.  The field
\* is a usize; a value below zero stands for the wrapped value 2^64 + len.
ApplyLen(len, edits, files) ==
    IF edits = <<>> THEN len
    ELSE LET e == Head(edits)
             n == IF e.type = "NewFile"
                  THEN SumLen(files, [i \in DOMAIN e.scopes |-> e.scopes[i].gen])
                  ELSE 0 - SumLen(files, e.gens)
         IN ApplyLen(len + n, Tail(edits), files)

RECURSIVE SumLenSet(_, _)
\* statistical_process over a set of gens (Vec::from_iter(gen_set))
SumLenSet(files, gens) ==
    IF gens = {} THEN 0
    ELSE LET g == CHOOSE x \in gens : TRUE
         IN SstLen(files, g) + SumLenSet(files, gens \ {g})

RECURSIVE GenSet(_, _)
\* Version::apply: gen_set.insert for the gens of a NewFile, gen_set.remove
\* for the gens of a DeleteFile
GenSet(set, edits) ==
    IF edits = <<>> THEN set
    ELSE LET e == Head(edits)
         IN GenSet(IF e.type = "NewFile" THEN set \cup ScopeGens(e.scopes)
                   ELSE set \ Range(e.gens),
                   Tail(edits))

\* Version::apply with is_init: the gens the statistics are taken over
init_gen_set(vec_log) == GenSet({}, vec_log)

\* Version::load_from_log: a new Version, apply(vec_log, true).  The
\* statistics are added once, at the end, over gen_set; a gen of gen_set
\* without a file is SSTableLost and the load fails.
load_from_log(vec_log, files) ==
    LET r == ApplyEdits(level_slice_new, <<>>, vec_log)
        gs == init_gen_set(vec_log)
        ok == gs \subseteq DOMAIN files
    IN [ok |-> ok,
        num |-> 1,
        level_slice |-> r.level_slice,
        len |-> IF ok THEN SumLenSet(files, gs) ELSE 0]

CleanAdd(num, gens) == [type |-> "Add", num |-> num, gens |-> gens]
CleanClean(num) == [type |-> "Clean", num |-> num, gens |-> <<>>]

find_index_never(dg, ver_num) == 0

\* Cleaner::find_index_with_ver_num, 0 when absent, else the 1-based position
find_index_with_ver_num(dg, ver_num) ==
    LET hits == {i \in DOMAIN dg : dg[i].num = ver_num}
    IN IF hits = {} THEN 0 ELSE SetMin(hits)

RemoveAt(s, i) == SubSeq(s, 1, i - 1) \o SubSeq(s, i + 1, Len(s))

(***************************************************************************)
(* State machine                                                           *)
(***************************************************************************)
EmptyMap == [x \in {} |-> 0]

\* `loaded` lists, per step of major_compaction, the gens of the SSTs whose
\* entries were read and merged
NoTask == [gen |-> 0, values |-> EmptyMap, last_seq_id |-> 0, level |-> 0,
           edits |-> <<>>, loaded |-> <<>>]

NoEntry == [has |-> FALSE, val |-> None]

\* `begun` counts the Transactions begun so far
NoTxn == [active |-> FALSE, begun |-> 0, seq_id |-> 0, version |-> 0,
          writer_buf |-> [k \in Keys |-> NoEntry]]

NoRes == [op |-> "none", key |-> 0, res |-> "none", removed |-> FALSE]

\* no mutation of the key yet; `over` tells that the latest mutation is a set
\* that followed a set of the same key
Unwritten == [written |-> FALSE, val |-> None, over |-> FALSE]

Mutated(last, val) ==
    [written |-> TRUE, val |-> val,
     over |-> val.some /\ last.written /\ last.val.some]

\* the state after LsmStore::open on an empty directory: an empty Version
\* the tasks that call log_and_apply next to one another
Callers == 1..MaxCallers

\* a caller that has not started
NoCall_la == [pc |-> "idle", gen |-> 0, edits |-> <<>>, base |-> VersionNew, num |-> 0]

\* VersionStatus (with its _cleaner_tx and its current Version) is alive and
\* the Cleaner task listens; `left` will be the queue the Cleaner finds when
\* its channel closes
Running == [ver_status |-> "alive", cleaner |-> "listening", left |-> <<>>]

\* no commit is running, none has returned, no reader holds a snapshot
NoCommit ==
    [pc |-> "idle", seq_id |-> 0, todo |-> <<>>,
     last |-> [set |-> FALSE, begin |-> 0, seq_id |-> 0,
               buf |-> [k \in Keys |-> NoEntry]],
     rd |-> [set |-> FALSE, seq_id |-> 0, after |-> FALSE, taken |-> 0]]

\* ids of the Flush requests a run makes
Reqs == 1..MaxFlushReqs

\* a oneshot done channel: nothing is sent yet, or the Flush request is on
\* its way ("waiting"), or the Sender was dropped without a send ("closed")
NoRequest == [state |-> "unsent", sends |-> 0]

\* mutant of Answer: the Sender is dropped, nothing is sent
AnswerDropped(d, id) == [d EXCEPT ![id].state = "closed"]

\* tx.send(()) on the done channel of request id
Answer(d, id) == [d EXCEPT ![id].state = "answered", ![id].sends = @ + 1]

\* the compactor task is gone: the Senders of the requests in its channel
\* are dropped with it
CloseQueued(d, q) ==
    [id \in Reqs |->
        IF d[id].state = "waiting" /\ \E i \in DOMAIN q : q[i] = id
        THEN [d[id] EXCEPT !.state = "closed"]
        ELSE d[id]]

\* loaded from an empty version log (apply sends Add(1, [])), one WAL segment
\* the store after open on an empty directory
StoreInit ==
    /\ mem = {}
    /\ immut = {}
    /\ clock = 2
    /\ wal = (1 :> <<>>)
    /\ walGen = 1
    /\ sstFiles = EmptyMap
    /\ loader = {}
    /\ versions = (1 :> [VersionNew EXCEPT !.num = 1])
    /\ current = 1
    /\ refs = (1 :> 0)
    /\ chan = <<CleanAdd(1, <<>>)>>
    /\ del_gens = <<>>
    /\ verLog = <<>>
    /\ cpc = "idle"
    /\ ctask = NoTask
    /\ txn = NoTxn
    /\ lastMut = [k \in Keys |-> Unwritten]
    /\ lastRes = NoRes
    /\ flushQ = <<>>
    /\ done = [id \in Reqs |-> NoRequest]
    /\ ctx = 0
    /\ cmt = NoCommit
    /\ run = Running
    /\ la = [p \in Callers |-> NoCall_la]

(***************************************************************************)
(* io/mod.rs: IoFactory.  disk is the directory (gen -> bytes of the file  *)
(* "{gen}.{ext}"), mem_files the map of memory files.                      *)
(***************************************************************************)
IoTypes == {"Buf", "Direct", "Mem"}

NoWriter == [open |-> FALSE]

NoCall == [op |-> "none"]

\* IoFactory::new on an empty directory; writers are the Box<dyn IoWriter>
\* handed out and still alive, last the last call and its result
IoFactoryNew ==
    [disk |-> <<>>, mem_files |-> <<>>,
     writers |-> [h \in 1..MaxWriters |-> NoWriter], last |-> NoCall]

\* IoFactory::load_mem_file: entry(gen).or_insert_with(MemIoWriter::new)
load_mem_file(mem_files, gen) ==
    IF gen \in DOMAIN mem_files THEN mem_files ELSE (gen :> <<>>) @@ mem_files

\* IoFactory::writer: BufIoWriter::new and DirectIoWriter::new open the file
\* with create(true), without truncating it; Mem loads the memory file
writer(f, gen, io_type) ==
    IF io_type = "Mem"
    THEN [f EXCEPT !.mem_files = load_mem_file(@, gen)]
    ELSE [f EXCEPT !.disk = IF gen \in DOMAIN @ THEN @ ELSE (gen :> <<>>) @@ @]

\* IoFactory::clean: Ok(()) as soon as a memory file was removed, otherwise
\* fs::remove_file, which fails when there is no such file
clean(f, gen) ==
    IF gen \in DOMAIN f.mem_files
    THEN [ok |-> TRUE, f |-> [f EXCEPT !.mem_files = Without(@, gen)]]
    ELSE IF gen \in DOMAIN f.disk
         THEN [ok |-> TRUE, f |-> [f EXCEPT !.disk = Without(@, gen)]]
         ELSE [ok |-> FALSE, f |-> f]

\* IoFactory::exists
exists(f, gen) == gen \in DOMAIN f.mem_files \/ gen \in DOMAIN f.disk

\* the bytes of a file after buf was written at position pos
WriteAt(bytes, pos, buf) ==
    [i \in 1..SetMax({Len(bytes), pos + Len(buf)}) |->
        IF i > pos /\ i <= pos + Len(buf) THEN buf[i - pos] ELSE bytes[i]]

\* no component scenario is running
UnitIdle ==
    /\ bkv = <<>>
    /\ blk = <<>>
    /\ bbuf = NoBuf
    /\ bdec = NoResult
    /\ sst = NoBuf
    /\ sq = NoResult
    /\ rec = NoResult
    /\ io = IoFactoryNew

Init == StoreInit /\ UnitIdle

RECURSIVE SumOver(_, _)
SumOver(f, S) ==
    IF S = {} THEN 0
    ELSE LET x == CHOOSE y \in S : TRUE IN f[x] + SumOver(f, S \ {x})

\* the number of records in the WAL, all segments together
WalRecords == SumOver([g \in DOMAIN wal |-> Len(wal[g])], DOMAIN wal)

\* the number of WAL switches so far
WalSwitches == Cardinality(DOMAIN wal) - 1

\* wal_put: append one record to the active WAL segment
WalPut(w, key, val) ==
    IF wal_enable
    THEN [w EXCEPT ![walGen] = Append(@, [key |-> key, val |-> val])]
    ELSE w

\* LsmStore::append_cmd_data: WAL and MemTable double write
AppendCmdData(key, val) ==
    /\ clock <= MaxClock
    /\ WalRecords < MaxRecords
    /\ wal' = WalPut(wal, key, val)
    /\ mem' = mem \cup {[key |-> key, seq |-> clock, val |-> val]}
    /\ clock' = clock + 1
    /\ lastMut' = [lastMut EXCEPT ![key] = Mutated(@, val)]
    /\ UNCHANGED <<unitVars, la, cmt, run, reqVars, immut, walGen, sstVars, verVars, cleanVars, compVars, txn,
                   verLog>>

\* LsmStore::set
Set(key, value) ==
    /\ AppendCmdData(key, Some(value))
    /\ lastRes' = NoRes

\* has a successful remove been the latest committed mutation of `key`
Removed(key) == lastMut[key].written /\ ~lastMut[key].val.some

\* LsmStore::remove
Remove(key) ==
    IF Get(key).some
    THEN /\ AppendCmdData(key, None)
         /\ lastRes' = [op |-> "remove", key |-> key, res |-> "Ok",
                        removed |-> Removed(key)]
    ELSE /\ lastRes' = [op |-> "remove", key |-> key, res |-> "KeyNotFound",
                        removed |-> Removed(key)]
         /\ UNCHANGED <<unitVars, la, cmt, run, reqVars, memVars, clock, walVars, sstVars, verVars, cleanVars,
                        compVars, txn, verLog, lastMut>>

(***************************************************************************)
(* Version handles                                                         *)
(***************************************************************************)

\* drop one Arc<Version> clone of `id`; the last clone of a Version that is
\* no longer current drops the Version, whose Drop sends Clean(version_num)
DropHandle(vs, rf, ch, id) ==
    IF rf[id] = 1 /\ id # current
    THEN [versions |-> Without(vs, id), refs |-> Without(rf, id),
          chan |-> Append(ch, CleanClean(vs[id].num))]
    ELSE [versions |-> vs, refs |-> [rf EXCEPT ![id] = @ - 1], chan |-> ch]

TxnHandles(id) == IF txn.active /\ txn.version = id THEN 1 ELSE 0

ReaderHandles(id) == refs[id] - TxnHandles(id)

\* VersionStatus::current, taken by a reader
Capture ==
    /\ SumOver(refs, DOMAIN refs) - (IF txn.active THEN 1 ELSE 0) < MaxReaders
    /\ refs' = [refs EXCEPT ![current] = @ + 1]
    /\ UNCHANGED <<unitVars, la, cmt, run, reqVars, memVars, clock, walVars, sstVars, versions, current,
                   cleanVars, verLog, compVars, txn, ghostVars>>

\* a reader drops its Arc<Version>
Release(id) ==
    /\ ReaderHandles(id) > 0
    /\ LET d == DropHandle(versions, refs, chan, id)
       IN /\ versions' = d.versions
          /\ refs' = d.refs
          /\ chan' = d.chan
    /\ UNCHANGED <<unitVars, la, cmt, run, reqVars, memVars, clock, walVars, sstVars, current, del_gens, verLog,
                   compVars, txn, ghostVars>>

(***************************************************************************)
(* Cleaner                                                                 *)
(***************************************************************************)
\* mutant of clean_tag: the entry is dropped from the queue, its files stay
clean_forget(c, ver_num) ==
    LET index == find_index_with_ver_num(c.del_gens, ver_num)
    IN IF index = 0 THEN c ELSE [c EXCEPT !.del_gens = RemoveAt(@, index)]

\* Cleaner::clean on c = [del_gens, loader, sstFiles]
clean_tag(c, ver_num) ==
    LET index == find_index_with_ver_num(c.del_gens, ver_num)
        vec_gen == c.del_gens[index].gens
    IN IF index = 0 THEN c
       ELSE IF index = 1
       THEN [del_gens |-> RemoveAt(c.del_gens, 1),
             loader |-> c.loader \ Range(vec_gen),
             sstFiles |-> [g \in DOMAIN c.sstFiles \ Range(vec_gen) |-> c.sstFiles[g]]]
       ELSE [c EXCEPT !.del_gens =
                RemoveAt([@ EXCEPT ![index - 1].gens = @ \o vec_gen], index)]

RECURSIVE clean_all(_, _)
\* Cleaner::listen on None: for ver_num in all_ver_num { self.clean(ver_num) }
clean_all(c, all_ver_num) ==
    IF all_ver_num = <<>> THEN c
    ELSE clean_all(clean_tag(c, Head(all_ver_num)), Tail(all_ver_num))

\* Cleaner::listen, one received tag; Cleaner::clean for a Clean tag
CleanerRecv ==
    /\ chan # <<>>
    /\ chan' = Tail(chan)
    /\ LET tag == Head(chan)
           c == clean_tag([del_gens |-> del_gens, loader |-> loader,
                           sstFiles |-> sstFiles], tag.num)
       IN IF tag.type = "Add"
          THEN /\ del_gens' = Append(del_gens, [num |-> tag.num, gens |-> tag.gens])
               /\ UNCHANGED sstVars
          ELSE /\ del_gens' = c.del_gens
               /\ loader' = c.loader
               /\ sstFiles' = c.sstFiles
    /\ UNCHANGED <<unitVars, la, cmt, run, reqVars, memVars, clock, walVars, verVars, verLog,
                   compVars, txn, ghostVars>>

(***************************************************************************)
(* Compactor                                                               *)
(***************************************************************************)
\* where the compactor goes after the edits of `level - 1` were pushed: the
\* next data_loading_with_level either returns None (log_and_apply follows)
\* or loads level `level`
AfterLoading(level) ==
    IF LoadingNone(versions[current], level) THEN "apply" ELSE "major"

create_gen_unswitched(w, wg, next_gen) ==
    [gen |-> next_gen, walGen |-> wg, wal |-> w]

\* Compactor::create_gen: with the WAL enabled the WAL is switched to a
\* segment of the fresh gen and the gen of the replaced segment is returned
create_gen(w, wg, next_gen) ==
    IF wal_enable
    THEN [gen |-> wg, walGen |-> next_gen, wal |-> (next_gen :> <<>>) @@ w]
    ELSE [gen |-> next_gen, walGen |-> wg, wal |-> w]

WriteLockAlways == TRUE

\* MemTable::swap takes the write lock of MemTable.inner: it waits while the
\* Transaction holds its RwLockReadGuard (read_inner)
WriteLockFree == ~txn.active

\* Compactor::check_then_compaction up to create_gen: MemTable::swap (or
\* try_exceeded_then_swap when no response is awaited) and the WAL switch,
\* taken as one step (SwapOnly and CreateGenStep are the two calls apart).
\* The SST takes the gen of the replaced WAL segment.
SwapThenCreateGen(explicit) ==
    /\ cpc = "idle"
    /\ WriteLockFree
    /\ mem # {}
    /\ immut = {}
    /\ explicit \/ Cardinality(mem) >= minor_threshold_with_len
    /\ clock <= MaxClock
    /\ WalSwitches < MaxFlush
    /\ immut' = mem
    /\ mem' = {}
    /\ clock' = clock + 1
    /\ walGen' = create_gen(wal, walGen, clock).walGen
    /\ wal' = create_gen(wal, walGen, clock).wal
    /\ ctask' = [NoTask EXCEPT !.gen = create_gen(wal, walGen, clock).gen,
                               !.values = SwapValues(mem),
                               !.last_seq_id = SwapLastSeq(mem)]
    /\ cpc' = "minor"
    /\ UNCHANGED <<unitVars, la, cmt, run, sstVars, verVars, cleanVars, verLog, txn, ghostVars>>

\* check_then_compaction started by the periodic check (no option_tx) or by
\* a Flush request whose answer nobody follows
CompactorSwap(explicit) ==
    /\ SwapThenCreateGen(explicit)
    /\ UNCHANGED reqVars

\* Compactor::minor_compaction up to the call of major_compaction
CompactorMinor ==
    /\ cpc = "minor"
    /\ sstFiles' = (ctask.gen :> SstFile(LEVEL_0, ctask.values)) @@ sstFiles
    /\ loader' = loader \cup {ctask.gen}
    /\ ctask' = [ctask EXCEPT
                    !.level = LEVEL_0,
                    !.edits = <<NewFile(<<ScopeFromData(ctask.gen, ctask.values)>>,
                                        LEVEL_0, 0)>>]
    /\ cpc' = AfterLoading(LEVEL_0)
    /\ UNCHANGED <<unitVars, la, cmt, run, reqVars, memVars, clock, walVars, verVars, cleanVars, verLog, txn,
                   ghostVars>>

\* check_then_compaction, the response: option_tx.map(|tx| tx.send(())
\* .expect("compactor response error!")), with q the requests left in the
\* channel.  The send fails when the caller dropped its Receiver, and the
\* expect panics.
SendDone(id, q) ==
    IF id # 0 /\ done[id].state = "cancelled"
    THEN /\ cpc' = "panicked"
         /\ done' = CloseQueued(done, q)
         /\ flushQ' = <<>>
    ELSE /\ cpc' = "idle"
         /\ done' = IF id = 0 THEN done ELSE Answer(done, id)
         /\ flushQ' = q

\* the compaction request is answered and the immutable table released
Respond ==
    /\ immut' = {}
    /\ ctask' = NoTask
    /\ ctx' = 0
    /\ SendDone(ctx, flushQ)

GatheredLast(vec_ver_edit, step) == step

\* major_compaction: vec_ver_edit.push for the three edits of a step, after
\* the edits of the flush and of the steps before
Gathered(vec_ver_edit, step) == vec_ver_edit \o step

\* Compactor::major_compaction, one turn of the loop
CompactorMajor ==
    /\ cpc = "major"
    /\ LET level == ctask.level
           r == data_loading_with_level(versions[current], level, loader, sstFiles)
           keys == SortedSeq(DOMAIN r.merged)
           shards == data_sharding(keys, sst_file_size)
           n == Len(shards)
           gen(i) == clock + i - 1
           values(i) == [k \in shards[i] |-> r.merged[k]]
           new_scopes == [i \in 1..n |-> ScopeFromData(gen(i), values(i))]
       IN IF r.kind = "Err"
          THEN /\ Respond
               /\ UNCHANGED <<mem, clock, sstVars>>
          ELSE /\ clock + n - 1 <= MaxClock
               /\ clock' = clock + n
               /\ sstFiles' = [g \in {gen(i) : i \in 1..n} |->
                                   SstFile(level + 1, values(g - clock + 1))]
                                  @@ sstFiles
               /\ loader' = loader \cup {gen(i) : i \in 1..n}
               /\ ctask' = [ctask EXCEPT
                     !.level = level + 1,
                     !.edits = Gathered(@,
                                   <<NewFile(new_scopes, level + 1, r.index),
                                     DeleteFile(r.del_gen_l, level),
                                     DeleteFile(r.del_gen_ll, DeleteLevelLL(level))>>),
                     !.loaded = Append(@, Range(r.final))]
               /\ cpc' = AfterLoading(level + 1)
               /\ UNCHANGED <<memVars, reqVars>>
    /\ UNCHANGED <<unitVars, la, cmt, run, walVars, verVars, cleanVars, verLog, txn, ghostVars>>

PublishInPlace(vs, id, new_version) ==
    [i \in DOMAIN vs \cup {id} |-> new_version]

\* VersionStatus::log_and_apply: inner.version = Arc::new(new_version); the
\* edits were applied to a clone, the Versions handed out before stay as
\* they are
Publish(vs, id, new_version) == (id :> new_version) @@ vs

\* VersionStatus::log_and_apply with the edits of the compaction, then the
\* response of check_then_compaction
CompactorApply ==
    /\ cpc = "apply"
    /\ verLog' = verLog \o ctask.edits
    /\ LET old == versions[current]
           r == ApplyEdits(old.level_slice, <<>>, ctask.edits)
           new_version == [num |-> old.num + 1,
                           level_slice |-> r.level_slice,
                           len |-> ApplyLen(old.len, ctask.edits, sstFiles)]
           id == current + 1
       IN IF ApplyFails(ctask.edits, loader)
          THEN \* the clone is dropped: Clean(version_num) of the current one
               /\ chan' = Append(chan, CleanClean(old.num))
               /\ UNCHANGED <<versions, current, refs>>
          ELSE /\ current' = id
               /\ IF refs[current] = 0
                  THEN /\ versions' = Publish(Without(versions, current), id, new_version)
                       /\ refs' = (id :> 0) @@ Without(refs, current)
                       /\ chan' = chan \o <<CleanAdd(new_version.num, r.del),
                                            CleanClean(old.num)>>
                  ELSE /\ versions' = Publish(versions, id, new_version)
                       /\ refs' = (id :> 0) @@ refs
                       /\ chan' = Append(chan, CleanAdd(new_version.num, r.del))
    /\ Respond
    /\ UNCHANGED <<unitVars, la, cmt, run, mem, clock, walVars, sstVars, del_gens, txn, ghostVars>>

\* minor_compaction returns an error (the SSTable could not be written):
\* check_then_compaction logs it and goes on to the response
CompactorMinorFails ==
    /\ cpc = "minor"
    /\ Respond
    /\ UNCHANGED <<unitVars, la, cmt, run, mem, clock, walVars, sstVars, verVars, cleanVars, verLog,
                   txn, ghostVars>>

\* a caller of flush() or of the shutdown sends Flush(done) to the compactor
\* and awaits done
FlushSend(id) ==
    /\ cpc # "panicked"
    /\ done[id].state = "unsent"
    /\ flushQ' = Append(flushQ, id)
    /\ done' = [done EXCEPT ![id].state = "waiting"]
    /\ UNCHANGED <<unitVars, la, cmt, run, memVars, clock, walVars, sstVars, verVars, cleanVars,
                   compVars, verLog, txn, ghostVars, ctx>>

\* the caller is cancelled while it awaits done: its Receiver is dropped
FlushCancel(id) ==
    /\ done[id].state = "waiting"
    /\ done' = [done EXCEPT ![id].state = "cancelled"]
    /\ UNCHANGED <<unitVars, la, cmt, run, memVars, clock, walVars, sstVars, verVars, cleanVars,
                   compVars, verLog, txn, ghostVars, flushQ, ctx>>

\* the compactor task receives Flush(tx) and runs check_then_compaction with
\* option_tx = Some(tx): MemTable::swap gives the values to flush, or gives
\* nothing and the request is answered at once
CompactorRecvFlush ==
    /\ cpc = "idle"
    /\ flushQ # <<>>
    /\ IF mem # {} /\ immut = {}
       THEN /\ SwapThenCreateGen(TRUE)
            /\ ctx' = Head(flushQ)
            /\ flushQ' = Tail(flushQ)
            /\ UNCHANGED done
       ELSE /\ SendDone(Head(flushQ), Tail(flushQ))
            /\ UNCHANGED <<unitVars, la, cmt, run, memVars, clock, walVars, sstVars, verVars,
                           cleanVars, ctask, verLog, txn, ghostVars, ctx>>

\* check_then_compaction when the WAL switch of create_gen fails:
\* self.create_gen().expect("Log switch error!") panics after the swap, the
\* compactor task ends and no response is sent
CompactorSwitchFails ==
    /\ wal_enable
    /\ cpc = "idle"
    /\ WriteLockFree
    /\ mem # {}
    /\ immut = {}
    /\ flushQ # <<>> \/ Cardinality(mem) >= minor_threshold_with_len
    /\ clock <= MaxClock
    /\ immut' = mem
    /\ mem' = {}
    /\ clock' = clock + 1
    /\ cpc' = "panicked"
    /\ done' = CloseQueued(done, flushQ)
    /\ flushQ' = <<>>
    /\ UNCHANGED <<unitVars, la, cmt, run, walVars, sstVars, verVars, cleanVars, ctask, verLog, txn,
                   ghostVars, ctx>>

(***************************************************************************)
(* mvcc.rs: Transaction                                                    *)
(***************************************************************************)
\* Transaction::get
TxnGet(key) ==
    LET e == txn.writer_buf[key]
        m == MemFind(mem, immut, key, txn.seq_id)
    IN IF e.has /\ e.val.some THEN e.val
       ELSE IF m.found /\ m.val.some THEN m.val
       ELSE find_data_for_ss_tables(versions[txn.version], key, loader, sstFiles)

\* LsmStore::transaction and Transaction::new
TxnBegin ==
    /\ ~txn.active
    /\ clock <= MaxClock
    /\ txn.begun < MaxTxn
    /\ txn' = [NoTxn EXCEPT !.active = TRUE, !.begun = txn.begun + 1,
                            !.seq_id = clock, !.version = current]
    /\ clock' = clock + 1
    /\ refs' = [refs EXCEPT ![current] = @ + 1]
    /\ UNCHANGED <<unitVars, la, cmt, run, reqVars, memVars, walVars, sstVars, versions, current, cleanVars,
                   verLog, compVars, ghostVars>>

\* Transaction::set
TxnSet(key, value) ==
    /\ txn.active
    /\ txn' = [txn EXCEPT !.writer_buf[key] = [has |-> TRUE, val |-> Some(value)]]
    /\ UNCHANGED <<unitVars, la, cmt, run, reqVars, memVars, clock, walVars, sstVars, verVars, cleanVars, verLog,
                   compVars, ghostVars>>

\* was the latest operation of the transaction on `key` a successful remove
TxnRemoved(key) == txn.writer_buf[key].has /\ ~txn.writer_buf[key].val.some

\* Transaction::remove
TxnRemove(key) ==
    /\ txn.active
    /\ IF TxnGet(key).some
       THEN /\ txn' = [txn EXCEPT !.writer_buf[key] = [has |-> TRUE, val |-> None]]
            /\ lastRes' = [op |-> "txn_remove", key |-> key, res |-> "Ok",
                           removed |-> TxnRemoved(key)]
       ELSE /\ lastRes' = [op |-> "txn_remove", key |-> key,
                           res |-> "KeyNotFound", removed |-> TxnRemoved(key)]
            /\ UNCHANGED txn
    /\ UNCHANGED <<unitVars, la, cmt, run, reqVars, memVars, clock, walVars, sstVars, verVars, cleanVars, verLog,
                   compVars, lastMut>>

RECURSIVE WalLog(_, _)
\* Transaction::wal_log: one record per buffered entry, in key order
WalLog(w, keys) ==
    IF keys = <<>> THEN w
    ELSE WalLog(WalPut(w, Head(keys), txn.writer_buf[Head(keys)].val), Tail(keys))

insert_batch_none(m, buf, seq_id) == m

\* Transaction::insert_batch_data: every buffered entry under one fresh seq_id
insert_batch_data(m, buf, seq_id) ==
    m \cup {[key |-> k, seq |-> seq_id, val |-> buf[k].val] :
               k \in {j \in Keys : buf[j].has}}

\* Transaction::commit; the transaction, its read guard and its Version
\* handle are dropped
TxnCommit ==
    /\ txn.active
    /\ clock <= MaxClock
    /\ WalRecords + Cardinality({k \in Keys : txn.writer_buf[k].has}) <= MaxRecords
    /\ wal' = WalLog(wal, SortedSeq({k \in Keys : txn.writer_buf[k].has}))
    /\ mem' = insert_batch_data(mem, txn.writer_buf, clock)
    /\ clock' = clock + 1
    /\ lastMut' = [k \in Keys |->
                      IF txn.writer_buf[k].has
                      THEN Mutated(lastMut[k], txn.writer_buf[k].val)
                      ELSE lastMut[k]]
    /\ txn' = [NoTxn EXCEPT !.begun = txn.begun]
    /\ LET d == DropHandle(versions, refs, chan, txn.version)
       IN /\ versions' = d.versions
          /\ refs' = d.refs
          /\ chan' = d.chan
    /\ UNCHANGED <<unitVars, la, cmt, run, reqVars, immut, walGen, sstVars, current, del_gens, verLog, compVars,
                   lastRes>>

\* mutant of insert_one: only the smallest key reaches the MemTable
insert_one_first(m, key, cmd, seq_id) ==
    IF key = 1 THEN m \cup {[key |-> key, seq |-> seq_id, val |-> cmd]} ELSE m

\* Transaction::insert_batch_data, one turn of the loop:
\* inner.mem_table.insert(key_encode_with_seq(cmd_key, seq_id), (cmd, seq_id))
insert_one(m, key, cmd, seq_id) ==
    m \cup {[key |-> key, seq |-> seq_id, val |-> cmd]}

\* Transaction::commit step by step, next to other callers of the store.
\* Transaction::commit: self.wal_log()
CommitWalLog ==
    /\ txn.active
    /\ cmt.pc = "idle"
    /\ WalRecords + Cardinality({k \in Keys : txn.writer_buf[k].has}) <= MaxRecords
    /\ wal' = WalLog(wal, SortedSeq({k \in Keys : txn.writer_buf[k].has}))
    /\ cmt' = [cmt EXCEPT !.pc = "logged"]
    /\ UNCHANGED <<unitVars, la, run, reqVars, memVars, clock, walGen, sstVars, verVars, cleanVars,
                   verLog, compVars, txn, ghostVars>>

\* Transaction::insert_batch_data: let seq_id = config.create_gen()
CommitCreateGen ==
    /\ cmt.pc = "logged"
    /\ clock <= MaxClock
    /\ clock' = clock + 1
    /\ cmt' = [cmt EXCEPT !.pc = "insert", !.seq_id = clock,
                          !.todo = SortedSeq({k \in Keys : txn.writer_buf[k].has})]
    /\ UNCHANGED <<unitVars, la, run, reqVars, memVars, walVars, sstVars, verVars, cleanVars,
                   verLog, compVars, txn, ghostVars>>

\* Transaction::insert_batch_data: one entry of vec_data is inserted
CommitInsert ==
    /\ cmt.pc = "insert"
    /\ cmt.todo # <<>>
    /\ mem' = insert_one(mem, Head(cmt.todo), txn.writer_buf[Head(cmt.todo)].val,
                         cmt.seq_id)
    /\ cmt' = [cmt EXCEPT !.todo = Tail(@)]
    /\ UNCHANGED <<unitVars, la, run, reqVars, immut, clock, walVars, sstVars, verVars, cleanVars,
                   verLog, compVars, txn, ghostVars>>

\* Transaction::commit returns Ok(()); the transaction, its read guard and
\* its Version handle are dropped
CommitReturn ==
    /\ cmt.pc = "insert"
    /\ cmt.todo = <<>>
    /\ cmt' = [cmt EXCEPT !.pc = "idle", !.todo = <<>>,
                          !.last = [set |-> TRUE, begin |-> txn.seq_id,
                                    seq_id |-> cmt.seq_id, buf |-> txn.writer_buf]]
    /\ lastMut' = [k \in Keys |->
                      IF txn.writer_buf[k].has
                      THEN Mutated(lastMut[k], txn.writer_buf[k].val)
                      ELSE lastMut[k]]
    /\ txn' = [NoTxn EXCEPT !.begun = txn.begun]
    /\ LET d == DropHandle(versions, refs, chan, txn.version)
       IN /\ versions' = d.versions
          /\ refs' = d.refs
          /\ chan' = d.chan
    /\ UNCHANGED <<unitVars, la, run, reqVars, memVars, clock, walVars, sstVars, current, del_gens,
                   verLog, compVars, lastRes>>

\* a reader takes its snapshot: a seq_id of config.create_gen(), as
\* Transaction::new does; `after` tells that a commit had returned by then
ReaderSnapshot ==
    /\ ~cmt.rd.set
    /\ cmt.rd.taken < MaxSnapshots
    /\ clock <= MaxClock
    /\ clock' = clock + 1
    /\ cmt' = [cmt EXCEPT !.rd = [set |-> TRUE, seq_id |-> clock,
                                  after |-> cmt.last.set,
                                  taken |-> cmt.rd.taken + 1]]
    /\ UNCHANGED <<unitVars, la, run, reqVars, memVars, walVars, sstVars, verVars, cleanVars,
                   verLog, compVars, txn, ghostVars>>

\* the reader gives its snapshot up
ReaderDrop ==
    /\ cmt.rd.set
    /\ cmt' = [cmt EXCEPT !.rd = [NoCommit.rd EXCEPT !.taken = cmt.rd.taken]]
    /\ UNCHANGED <<unitVars, la, run, reqVars, memVars, clock, walVars, sstVars, verVars,
                   cleanVars, verLog, compVars, txn, ghostVars>>

\* VersionStatus::log_and_apply: the Version its edits are applied to is the
\* clone taken by Version::clone(self.current().await) before
\* self.inner.write().await, whatever the current Version is by then
CloneCurrent(base, cur) == base

\* a caller has an SST of one key written and loaded, and holds the edit
\* that adds it to level 0
CallerCreate(p, key) ==
    /\ la[p].pc = "idle"
    /\ clock <= MaxClock
    /\ clock' = clock + 1
    /\ LET values == (key :> Some(<<1>>))
       IN /\ sstFiles' = (clock :> SstFile(LEVEL_0, values)) @@ sstFiles
          /\ loader' = loader \cup {clock}
          /\ la' = [la EXCEPT ![p] = [NoCall_la EXCEPT
                       !.pc = "created", !.gen = clock,
                       !.edits = <<NewFile(<<ScopeFromData(clock, values)>>,
                                           LEVEL_0, 0)>>]]
    /\ UNCHANGED <<unitVars, cmt, run, reqVars, memVars, walVars, verVars, cleanVars,
                   verLog, compVars, txn, ghostVars>>

\* VersionStatus::log_and_apply up to the write lock:
\* let mut new_version = Version::clone(self.current().await.as_ref())
LogAndApplyClone(p) ==
    /\ la[p].pc = "created"
    /\ la' = [la EXCEPT ![p].pc = "cloned", ![p].base = versions[current]]
    /\ UNCHANGED <<unitVars, cmt, run, reqVars, memVars, clock, walVars, sstVars, verVars,
                   cleanVars, verLog, compVars, txn, ghostVars>>

\* VersionStatus::log_and_apply under self.inner.write(): the edits are
\* logged, applied to new_version and new_version is published
LogAndApplyLocked(p) ==
    /\ la[p].pc = "cloned"
    /\ verLog' = verLog \o la[p].edits
    /\ LET old == versions[current]
           base == CloneCurrent(la[p].base, old)
           r == ApplyEdits(base.level_slice, <<>>, la[p].edits)
           new_version == [num |-> base.num + 1,
                           level_slice |-> r.level_slice,
                           len |-> ApplyLen(base.len, la[p].edits, sstFiles)]
           id == current + 1
       IN /\ current' = id
          /\ la' = [la EXCEPT ![p].pc = "done", ![p].num = new_version.num]
          /\ IF refs[current] = 0
             THEN /\ versions' = Publish(Without(versions, current), id, new_version)
                  /\ refs' = (id :> 0) @@ Without(refs, current)
                  /\ chan' = chan \o <<CleanAdd(new_version.num, r.del),
                                       CleanClean(old.num)>>
             ELSE /\ versions' = Publish(versions, id, new_version)
                  /\ refs' = (id :> 0) @@ refs
                  /\ chan' = Append(chan, CleanAdd(new_version.num, r.del))
    /\ UNCHANGED <<unitVars, cmt, run, reqVars, memVars, clock, walVars, sstVars, del_gens,
                   compVars, txn, ghostVars>>

\* the store is closed: VersionStatus is dropped, and with it _cleaner_tx and
\* the current Version, whose Drop sends Clean(version_num) unless a reader
\* still holds it
DropVersionStatus ==
    /\ run.ver_status = "alive"
    /\ cpc = "idle"
    /\ ~txn.active
    /\ run' = [run EXCEPT !.ver_status = "dropped"]
    /\ current' = 0
    /\ IF refs[current] = 0
       THEN /\ versions' = Without(versions, current)
            /\ refs' = Without(refs, current)
            /\ chan' = Append(chan, CleanClean(versions[current].num))
       ELSE UNCHANGED <<versions, refs, chan>>
    /\ UNCHANGED <<unitVars, la, cmt, reqVars, memVars, clock, walVars, sstVars, del_gens,
                   verLog, compVars, txn, ghostVars>>

\* Cleaner::listen, tag_rx.recv() gives None: every sender is dropped and the
\* channel is empty; the remaining entries are cleaned and listen returns
CleanerClosed ==
    /\ run.cleaner = "listening"
    /\ run.ver_status = "dropped"
    /\ DOMAIN versions = {}
    /\ chan = <<>>
    /\ LET c == clean_all([del_gens |-> del_gens, loader |-> loader,
                           sstFiles |-> sstFiles],
                          [i \in DOMAIN del_gens |-> del_gens[i].num])
       IN /\ del_gens' = c.del_gens
          /\ loader' = c.loader
          /\ sstFiles' = c.sstFiles
    /\ run' = [run EXCEPT !.cleaner = "terminated", !.left = del_gens]
    /\ UNCHANGED <<unitVars, la, cmt, reqVars, memVars, clock, walVars, verVars, chan, verLog,
                   compVars, txn, ghostVars>>

(***************************************************************************)
(* Specification                                                           *)
(***************************************************************************)
Next ==
    \/ \E k \in Keys, v \in Bytes : Set(k, v)
    \/ \E k \in Keys : Remove(k)
    \/ \E explicit \in BOOLEAN : CompactorSwap(explicit)
    \/ CompactorMinor
    \/ CompactorMajor
    \/ CompactorApply
    \/ CleanerRecv
    \/ Capture
    \/ \E id \in DOMAIN versions : Release(id)
    \/ TxnBegin
    \/ \E k \in Keys, v \in Bytes : TxnSet(k, v)
    \/ \E k \in Keys : TxnRemove(k)
    \/ TxnCommit

Spec == Init /\ [][Next]_vars

CompactorRun ==
    \/ CompactorMinor
    \/ CompactorMajor
    \/ CompactorApply

\* the store used through set / remove / flush only, with every value
NextStore ==
    \/ /\ WalRecords < MaxStoreRecords
       /\ \/ \E k \in Keys, v \in Bytes : Set(k, v)
          \/ \E k \in Keys : Remove(k)
    \/ /\ WalSwitches < MaxStoreFlush
       /\ \E explicit \in BOOLEAN : CompactorSwap(explicit)
    \/ CompactorRun
    \/ CleanerRecv

SpecStore == Init /\ [][NextStore]_vars

\* readers holding Versions while one value is written and compacted
NextVersion ==
    \/ \E k \in Keys : Set(k, <<1>>)
    \/ \E explicit \in BOOLEAN : CompactorSwap(explicit)
    \/ CompactorRun
    \/ CleanerRecv
    \/ Capture
    \/ \E id \in DOMAIN versions : Release(id)

SpecVersion == Init /\ [][NextVersion]_vars

\* readers holding Versions over fewer flushes
NextClean ==
    \/ /\ WalRecords < MaxStoreRecords
       /\ \E k \in Keys : Set(k, <<1>>)
    \/ /\ WalSwitches < MaxStoreFlush
       /\ \E explicit \in BOOLEAN : CompactorSwap(explicit)
    \/ CompactorRun
    \/ CleanerRecv
    \/ Capture
    \/ \E id \in DOMAIN versions : Release(id)

\* the Cleaner task loops on tag_rx.recv(): a tag in the channel is received
SpecCleanFair == Init /\ [][NextClean]_vars /\ WF_vars(CleanerRecv)

\* the steps of the compactor task up to the merge of the levels
CompactorTask ==
    \/ CompactorRecvFlush
    \/ CompactorMinor
    \/ CompactorMinorFails

\* callers of flush() next to writes of one value; WAL switches may fail
NextFlush ==
    \/ /\ WalRecords < MaxStoreRecords
       /\ \E k \in Keys : Set(k, <<1>>)
    \/ \E id \in Reqs : FlushSend(id)
    \/ \E id \in Reqs : FlushCancel(id)
    \/ CompactorSwap(FALSE)
    \/ CompactorSwitchFails
    \/ CompactorTask
    \/ CompactorMajor
    \/ CompactorApply
    \/ CleanerRecv

\* the compactor is a spawned task looping on its channel, scheduled as long
\* as it has a step to take: weak fairness of its steps.  CompactorMajor and
\* CompactorApply are enabled exactly when cpc is "major" or "apply", and
\* their weak fairness is stated through that guard.
SpecFlushFair ==
    /\ Init
    /\ [][NextFlush]_vars
    /\ WF_vars(CompactorTask)
    /\ []<>(cpc \notin {"major", "apply"})

(***************************************************************************)
(* The read path on its own: a Version is drawn with SSTs in the levels    *)
(* 0..MaxLayoutLevel, the levels 1.. sorted by start key and disjoint, the *)
(* deeper SSTs older; every record of an SST carries the gen of the SST as *)
(* its value, or is a tombstone.                                           *)
(***************************************************************************)
KeySets == (SUBSET Keys) \ {{}}

\* the key sets of the SSTs of level 0, any overlap
Level0Layouts ==
    UNION {[1..n -> KeySets] : n \in 0..MaxLevelSsts}

\* the key sets of the SSTs of a level 1..6: ascending and disjoint
LevelNLayouts ==
    {lv \in Level0Layouts :
        \A i \in DOMAIN lv : \A j \in DOMAIN lv :
            i < j => SetMax(lv[i]) < SetMin(lv[j])}

\* the SSTs of level `level` carry gens below those of the shallower levels
LayoutGen(level, i, width) == (MaxLayoutLevel - level) * width + i

LayoutGens == 1..((MaxLayoutLevel + 1) * MaxLevelSsts)

\* the records of the SST `gen` with the keys ks
LayoutValues(gen, ks, tombs) ==
    [k \in ks |-> IF gen \in tombs THEN None ELSE Some(<<gen>>)]

\* the store opened on the layout keysOf (level -> the key sets of its SSTs),
\* the SSTs of tombs holding tombstones, vec_log the version log on disk; the
\* WAL segment is newer than every SST
OpenedWith(keysOf, tombs, width, vec_log) ==
    /\ LET at == {x \in (0..MaxLayoutLevel) \X (1..width) :
                     x[2] \in DOMAIN keysOf[x[1]]}
           gens == {LayoutGen(x[1], x[2], width) : x \in at}
           level_slice ==
               [l \in Levels |->
                   IF l > MaxLayoutLevel THEN <<>>
                   ELSE [i \in DOMAIN keysOf[l] |->
                            ScopeFromData(LayoutGen(l, i, width),
                                LayoutValues(LayoutGen(l, i, width),
                                             keysOf[l][i], tombs))]]
       IN /\ tombs \subseteq gens
          /\ sstFiles = [g \in gens |->
                            LET x == CHOOSE y \in at :
                                         LayoutGen(y[1], y[2], width) = g
                            IN SstFile(x[1], LayoutValues(g, keysOf[x[1]][x[2]],
                                                          tombs))]
          /\ loader = gens
          /\ versions = (1 :> [num |-> 1, level_slice |-> level_slice,
                               len |-> SumLenSet(sstFiles, gens)])
    /\ clock = (MaxLayoutLevel + 1) * width + 2
    /\ mem = {}
    /\ immut = {}
    /\ wal = (((MaxLayoutLevel + 1) * width + 1) :> <<>>)
    /\ walGen = (MaxLayoutLevel + 1) * width + 1
    /\ current = 1
    /\ refs = (1 :> 0)
    /\ chan = <<CleanAdd(1, <<>>)>>
    /\ del_gens = <<>>
    /\ verLog = vec_log
    /\ cpc = "idle"
    /\ ctask = NoTask
    /\ txn = NoTxn
    /\ lastMut = [k \in Keys |-> Unwritten]
    /\ lastRes = NoRes
    /\ flushQ = <<>>
    /\ done = [id \in Reqs |-> NoRequest]
    /\ ctx = 0
    /\ cmt = NoCommit
    /\ run = Running
    /\ la = [p \in Callers |-> NoCall_la]
    /\ UnitIdle

\* the same with the version log left aside
Opened(keysOf, tombs, width) == OpenedWith(keysOf, tombs, width, <<>>)

\* the read path over every layout of up to MaxLevelSsts SSTs per level
InitRead ==
    \E l0 \in Level0Layouts, l1 \in LevelNLayouts, l2 \in LevelNLayouts,
       tombs \in {{}} \cup {{g} : g \in LayoutGens} :
        Opened((0 :> l0) @@ (1 :> l1) @@ (2 :> l2), tombs, MaxLevelSsts)

LayoutKeys == 1..MaxLayoutKey

\* a level 1..6 as the compactor writes it with sst_file_size = 1 entry: one
\* SST per key of S, ascending
OneKeySsts(S) == [i \in 1..Cardinality(S) |-> {SortedSeq(S)[i]}]

\* flushes and major compactions over every layout with at most one SST in level 0 (as
\* the flushes leave it with major_threshold_with_sst_size = 1) and one
\* SST per key in the levels 1..MaxLayoutLevel
InitMajor ==
    \E S0 \in SUBSET LayoutKeys, S1 \in SUBSET LayoutKeys,
       S2 \in SUBSET LayoutKeys :
        Opened((0 :> (IF S0 = {} THEN <<>> ELSE <<S0>>))
                   @@ (1 :> OneKeySsts(S1)) @@ (2 :> OneKeySsts(S2)),
               {}, MaxLayoutKey)

LevelOverNever(level) == FALSE

\* major_compaction: if level > 6 { return Err(KvsError::LevelOver) }
LevelOver(level) == level > 6

\* Compactor::major_compaction(level, vec![]) is called: LevelOver above
\* level 6, else the loop is entered
MajorCall(level) ==
    /\ cpc = "idle"
    /\ LevelOver(level) \/ current <= MaxMajorCalls
    /\ IF LevelOver(level)
       THEN /\ lastRes' = [op |-> "major", key |-> level, res |-> "LevelOver",
                           removed |-> FALSE]
            /\ UNCHANGED <<cpc, ctask>>
       ELSE /\ lastRes' = [op |-> "major", key |-> level, res |-> "Ok",
                           removed |-> FALSE]
            /\ ctask' = [NoTask EXCEPT !.level = level]
            /\ cpc' = AfterLoading(level)
    /\ UNCHANGED <<unitVars, la, cmt, run, reqVars, memVars, clock, walVars, sstVars,
                   verVars, cleanVars, verLog, txn, lastMut>>

NextMajor ==
    \/ \E level \in 0..MaxCallLevel : MajorCall(level)
    \/ /\ current <= MaxMajorCalls
       /\ WalRecords < 1
       /\ \E k \in Keys : Set(k, <<1>>)
    \/ /\ current <= MaxMajorCalls
       /\ CompactorSwap(TRUE)
    \/ CompactorMinor
    \/ CompactorMajor
    \/ CompactorApply
    \/ CleanerRecv
    \/ Capture
    \/ \E id \in DOMAIN versions : Release(id)

SpecMajor == InitMajor /\ [][NextMajor]_vars

\* calls of major_compaction on their own; the compactor task runs a call to
\* its end: no step of the loop and no log_and_apply waits for ever
NextCall ==
    \/ \E level \in 0..MaxCallLevel : MajorCall(level)
    \/ CompactorMajor
    \/ CompactorApply

\* a turn of the loop of major_compaction can be taken: the loop is running
\* and the gens of the new SSTs are within the bound of the model
MajorEnabled ==
    /\ cpc = "major"
    /\ LET r == data_loading_with_level(versions[current], ctask.level, loader,
                                        sstFiles)
           n == Len(data_sharding(SortedSeq(DOMAIN r.merged), sst_file_size))
       IN r.kind = "Err" \/ clock + n - 1 <= MaxClock

\* the steps of a call as they show in the state: among the actions of
\* NextCall only CompactorMajor moves the task while the loop is running, and
\* only CompactorApply leaves log_and_apply
MajorTurn == cpc = "major" /\ ctask' # ctask

ApplyTurn == cpc = "apply" /\ cpc' # "apply"

\* weak fairness of the turns of the loop and of log_and_apply, each written
\* as "infinitely often disabled or infinitely often taken" with its enabling
\* condition spelled out
SpecMajorFair ==
    /\ InitMajor
    /\ [][NextCall]_vars
    /\ ([]<>~MajorEnabled) \/ ([]<><<MajorTurn>>_vars)
    /\ ([]<>(cpc # "apply")) \/ ([]<><<ApplyTurn>>_vars)

\* the positions of level `level` whose loaded SST has a record of `key`
Holding(version, key, level, ld, files) ==
    LET lv == version.level_slice[level]
    IN {i \in DOMAIN lv : /\ lv[i].gen \in ld
                          /\ key \in DOMAIN files[lv[i].gen].data}

\* the values `key` may be read with from the shallowest level that has a
\* record of it: the newest SST of level 0, the SST of a level 1..6
ShallowestValues(version, key, ld, files) ==
    LET has == {l \in Levels : Holding(version, key, l, ld, files) # {}}
    IN IF has = {} THEN {None}
       ELSE LET l == SetMin(has)
                at == Holding(version, key, l, ld, files)
                lv == version.level_slice[l]
            IN IF l = LEVEL_0
               THEN {ValueDecode(files[lv[SetMax(at)].gen].data[key]).bytes}
               ELSE {ValueDecode(files[lv[i].gen].data[key]).bytes : i \in at}

\* the scopes of level `level` of the layout keysOf
LayoutScopes(keysOf, level, width) ==
    [i \in DOMAIN keysOf[level] |->
        ScopeFromData(LayoutGen(level, i, width),
                      LayoutValues(LayoutGen(level, i, width),
                                   keysOf[level][i], {}))]

\* the version log that built the layout keysOf: the SSTs of level 1, then
\* one NewFile per flush
LayoutLog(keysOf, width) ==
    (IF keysOf[1] = <<>> THEN <<>>
     ELSE <<NewFile(LayoutScopes(keysOf, 1, width), 1, 0)>>)
        \o [i \in DOMAIN keysOf[0] |->
               NewFile(<<LayoutScopes(keysOf, 0, width)[i]>>, LEVEL_0, 0)]

\* a store written under a greater major_threshold_with_sst_size and opened
\* again: up to MaxLayoutKey SSTs of one key each in level 0, in the order of
\* their flushes, and one SST per key in level 1
InitLevel0 ==
    \E l0 \in UNION {[1..n -> {{k} : k \in LayoutKeys}] : n \in 0..MaxLayoutKey},
       S1 \in SUBSET LayoutKeys :
        LET keysOf == (0 :> l0) @@ (1 :> OneKeySsts(S1)) @@ (2 :> <<>>)
        IN OpenedWith(keysOf, {}, MaxLayoutKey, LayoutLog(keysOf, MaxLayoutKey))

\* flushes with their compactions on such a store
NextLevel0 ==
    \/ /\ current <= MaxLevel0Flush
       /\ Cardinality(mem) < 1
       /\ \E k \in Keys : Set(k, <<1>>)
    \/ /\ current <= MaxLevel0Flush
       /\ CompactorSwap(TRUE)
    \/ CompactorRun

SpecLevel0 == InitLevel0 /\ [][NextLevel0]_vars

\* VersionStatus::log_and_apply returns the error of add_record: the first
\* `written` edits are in the version log, the clone is dropped without
\* being published (its drop sends Clean of the current version_num), and
\* check_then_compaction logs the error and answers
LogAndApplyFails(written) ==
    /\ cpc = "apply"
    /\ written < Len(ctask.edits)
    /\ verLog' = verLog \o SubSeq(ctask.edits, 1, written)
    /\ chan' = Append(chan, CleanClean(versions[current].num))
    /\ Respond
    /\ UNCHANGED <<unitVars, la, cmt, run, mem, clock, walVars, sstVars, versions,
                   current, refs, del_gens, txn, ghostVars>>

\* flushes whose compactions may fail: the SSTable of the flush cannot be
\* written, or a record of the version log cannot be written
NextFail ==
    \/ /\ WalRecords < MaxFailRecords
       /\ \E k \in Keys : Set(k, <<1>>)
    \/ /\ WalSwitches < MaxFailFlush
       /\ CompactorSwap(TRUE)
    \/ CompactorRun
    \/ CompactorMinorFails
    \/ \E written \in 0..3 : LogAndApplyFails(written)
    \/ CleanerRecv

SpecFail == Init /\ [][NextFail]_vars

\* Transaction::get of a second Transaction that has buffered nothing: the
\* MemTable at its seq_id, then the SSTs of its Version
ReaderGet(key) ==
    /\ cmt.rd.set
    /\ LET m == MemFind(mem, immut, key, cmt.rd.seq_id)
           value == IF m.found /\ m.val.some THEN m.val
                    ELSE find_data_for_ss_tables(versions[current], key, loader,
                                                 sstFiles)
           again == /\ lastRes.op = "txn_get"
                    /\ lastRes.key = key
                    /\ lastRes.snap = cmt.rd.taken
       IN lastRes' = [op |-> "txn_get", key |-> key, removed |-> FALSE,
                      res |-> value, snap |-> cmt.rd.taken,
                      first |-> IF again THEN lastRes.first ELSE value]
    /\ UNCHANGED <<unitVars, la, cmt, run, reqVars, memVars, clock, walVars, sstVars,
                   verVars, cleanVars, verLog, compVars, txn, lastMut>>

\* a Transaction that reads, next to a Transaction whose commit runs entry
\* by entry and to the store's own writes
NextRepeat ==
    \/ /\ WalRecords < MaxRepeatRecords
       /\ \E k \in Keys : Set(k, <<1>>)
    \/ TxnBegin
    \/ /\ cmt.pc = "idle"
       /\ \E k \in Keys : TxnSet(k, <<2>>)
    \/ CommitWalLog
    \/ CommitCreateGen
    \/ CommitInsert
    \/ CommitReturn
    \/ ReaderSnapshot
    \/ ReaderDrop
    \/ \E k \in Keys : ReaderGet(k)

SpecRepeat == Init /\ [][NextRepeat]_vars

\* check_then_compaction, the call of MemTable::swap alone: the write lock
\* of MemTable.inner is taken and released inside swap, which returns the
\* entries and last_seq_id, not a guard
SwapOnly ==
    /\ cpc = "idle"
    /\ WriteLockFree
    /\ mem # {}
    /\ immut = {}
    /\ immut' = mem
    /\ mem' = {}
    /\ ctask' = [NoTask EXCEPT !.values = SwapValues(mem),
                               !.last_seq_id = SwapLastSeq(mem)]
    /\ cpc' = "gen"
    /\ UNCHANGED <<unitVars, la, cmt, run, reqVars, clock, walVars, sstVars, verVars,
                   cleanVars, verLog, txn, ghostVars>>

\* check_then_compaction, the call of create_gen that follows swap: the WAL
\* is switched and the gen of the replaced segment becomes the gen of the SST
CreateGenStep ==
    /\ cpc = "gen"
    /\ clock <= MaxClock
    /\ clock' = clock + 1
    /\ walGen' = create_gen(wal, walGen, clock).walGen
    /\ wal' = create_gen(wal, walGen, clock).wal
    /\ ctask' = [ctask EXCEPT !.gen = create_gen(wal, walGen, clock).gen]
    /\ cpc' = "minor"
    /\ UNCHANGED <<unitVars, la, cmt, run, reqVars, memVars, sstVars, verVars,
                   cleanVars, verLog, txn, ghostVars>>

\* writers next to flushes whose swap and WAL switch are two steps
NextSwitch ==
    \/ /\ WalRecords < MaxStoreRecords
       /\ \E k \in Keys : Set(k, <<1>>)
    \/ /\ WalSwitches < MaxSwitchFlush
       /\ SwapOnly
    \/ CreateGenStep
    \/ CompactorRun

SpecSwitch == Init /\ [][NextSwitch]_vars


(***************************************************************************)
(* lsm_kv.rs: the store with its WAL kept in a HashStore, stopped and      *)
(* opened again with SSTables that fail to load                            *)
(***************************************************************************)
ReloadValues == {<<1>>, <<2>>}

NoCmds == [k \in Keys |-> NoEntry]

\* `latest` is, per key, the command of the last set that returned
RecNew ==
    [set |-> TRUE, phase |-> "running", mem |-> NoCmds, wal |-> NoCmds,
     pending |-> {}, ssts |-> <<>>, lists |-> <<>>, lost |-> {},
     latest |-> NoCmds, sets |-> 0, err |-> "none"]

InitReload ==
    /\ StoreInit
    /\ bkv = <<>>
    /\ blk = <<>>
    /\ bbuf = NoBuf
    /\ bdec = NoResult
    /\ sst = NoBuf
    /\ sq = NoResult
    /\ io = IoFactoryNew
    /\ rec = RecNew

\* LsmStore::set, append_cmd_data: wal_put spawns the task that writes the
\* command to the WAL and is not awaited; the MemTable takes the command
ReloadSet(key, value) ==
    /\ rec.set
    /\ rec.phase = "running"
    /\ rec.sets < MaxReloadSets
    /\ LET cmd == [has |-> TRUE, val |-> Some(value)]
       IN rec' = [rec EXCEPT
                     !.mem[key] = cmd,
                     !.latest[key] = cmd,
                     !.sets = @ + 1,
                     !.pending = @ \cup {[key |-> key, cmd |-> cmd,
                                          id |-> rec.sets + 1]}]
    /\ UNCHANGED <<storeVars, bkv, blk, bbuf, bdec, sst, sq, io>>

\* wal_put, the spawned task: wal.set(&key, value)
ReloadWalTask ==
    /\ rec.set
    /\ rec.phase = "running"
    /\ \E t \in rec.pending :
           rec' = [rec EXCEPT !.wal[t.key] = t.cmd, !.pending = @ \ {t}]
    /\ UNCHANGED <<storeVars, bkv, blk, bbuf, bdec, sst, sq, io>>

\* minor_compaction_sync: the MemTable is swapped out and written as the
\* SSTable of the next gen, with the list of its keys in the WAL
ReloadFlush ==
    /\ rec.set
    /\ rec.phase = "running"
    /\ Len(rec.ssts) < MaxReloadFlush
    /\ \E k \in Keys : rec.mem[k].has
    /\ rec' = [rec EXCEPT
                  !.ssts = Append(@, rec.mem),
                  !.lists = Append(@, [has |-> TRUE,
                                       keys |-> {k \in Keys : rec.mem[k].has}]),
                  !.mem = NoCmds]
    /\ UNCHANGED <<storeVars, bkv, blk, bbuf, bdec, sst, sq, io>>

\* the process ends: the MemTable and the tasks not yet run are gone; the
\* SSTables of `lost` will fail in SsTable::restore_from_file
ReloadStop(lost) ==
    /\ rec.set
    /\ rec.phase = "running"
    /\ rec.ssts # <<>>
    /\ lost \subseteq DOMAIN rec.ssts
    /\ rec' = [rec EXCEPT !.phase = "down", !.mem = NoCmds, !.pending = {},
                          !.lost = lost]
    /\ UNCHANGED <<storeVars, bkv, blk, bbuf, bdec, sst, sq, io>>

RECURSIVE reload_keys(_, _, _)
\* LsmStore::reload_for_wal, the loop over the keys of the list
reload_keys(mem_table, wal_kv, keys) ==
    IF keys = <<>> THEN Ok(mem_table)
    ELSE IF wal_kv[Head(keys)].has
    THEN reload_keys([mem_table EXCEPT ![Head(keys)] = wal_kv[Head(keys)]],
                     wal_kv, Tail(keys))
    ELSE Err("WalLoadError")

\* LsmStore::reload_for_wal
reload_for_wal(mem_table, wal_kv, lists, gen) ==
    IF gen \in DOMAIN lists /\ lists[gen].has
    THEN reload_keys(mem_table, wal_kv, SortedSeq(lists[gen].keys))
    ELSE Err("WalLoadError")

RECURSIVE open_loop(_, _, _)
\* LsmStore::open_with_config, the loop over the gens from the newest one
open_loop(gen, mem_map, ss_tables) ==
    IF gen = 0 THEN Ok([mem_map |-> mem_map, ss_tables |-> ss_tables])
    ELSE IF gen \notin rec.lost
    THEN open_loop(gen - 1, mem_map, ss_tables \cup {gen})
    ELSE LET r == reload_for_wal(mem_map, rec.wal, rec.lists, gen)
         IN IF r.ok THEN open_loop(gen - 1, r.value, ss_tables) ELSE r

\* LsmStore::open_with_config
ReloadOpen ==
    /\ rec.set
    /\ rec.phase = "down"
    /\ LET r == open_loop(Len(rec.ssts), NoCmds, {})
       IN rec' = IF r.ok
                 THEN [rec EXCEPT !.phase = "open", !.mem = r.value.mem_map]
                 ELSE [rec EXCEPT !.phase = "failed", !.err = r.err]
    /\ UNCHANGED <<storeVars, bkv, blk, bbuf, bdec, sst, sq, io>>

NextReload ==
    \/ \E k \in Keys, v \in ReloadValues : ReloadSet(k, v)
    \/ ReloadWalTask
    \/ ReloadFlush
    \/ \E lost \in SUBSET (1..MaxReloadFlush) : ReloadStop(lost)
    \/ ReloadOpen

SpecReload == InitReload /\ [][NextReload]_vars

(***************************************************************************)
(* Scope::meet on its own, over every pair of scopes of up to MaxScopeKey  *)
(* keys.                                                                   *)
(***************************************************************************)
Scopes ==
    {sc \in [start : 1..MaxScopeKey, end : 1..MaxScopeKey, gen : {0}] :
        sc.start <= sc.end}

\* self.meet(target), as get_meet_scope_ss_tables calls it for a scope of the
\* level against the fused scope
ScopeMeet(self, target) ==
    /\ lastRes' = [op |-> "meet", key |-> 0, removed |-> FALSE,
                   self |-> self, target |-> target,
                   res |-> meet(self, target)]
    /\ UNCHANGED <<unitVars, la, cmt, run, reqVars, memVars, clock, walVars, sstVars,
                   verVars, cleanVars, verLog, compVars, txn, lastMut>>

NextScope == \E self \in Scopes, target \in Scopes : ScopeMeet(self, target)

SpecScope == Init /\ [][NextScope]_vars

\* Version::find_data_for_ss_tables on the current Version
VersionFind(key) ==
    /\ lastRes' = [op |-> "find", key |-> key, removed |-> FALSE,
                   res |-> find_data_for_ss_tables(versions[current], key,
                                                   loader, sstFiles)]
    /\ UNCHANGED <<unitVars, la, cmt, run, reqVars, memVars, clock, walVars, sstVars,
                   verVars, cleanVars, verLog, compVars, txn, lastMut>>

NextRead == \E key \in Keys : VersionFind(key)

SpecRead == InitRead /\ [][NextRead]_vars

\* tasks calling log_and_apply next to one another, readers and the Cleaner
NextApply ==
    \/ \E p \in Callers, key \in Keys : CallerCreate(p, key)
    \/ \E p \in Callers : LogAndApplyClone(p)
    \/ \E p \in Callers : LogAndApplyLocked(p)
    \/ Capture
    \/ \E id \in DOMAIN versions : Release(id)
    \/ CleanerRecv

SpecApply == Init /\ [][NextApply]_vars

\* the store with readers holding Versions, then closed
NextClose ==
    \/ /\ run.ver_status = "alive"
       /\ \/ /\ WalRecords < MaxStoreRecords
             /\ \E k \in Keys : Set(k, <<1>>)
          \/ /\ WalSwitches < MaxStoreFlush
             /\ \E explicit \in BOOLEAN : CompactorSwap(explicit)
          \/ CompactorRun
          \/ Capture
    \/ \E id \in DOMAIN versions : Release(id)
    \/ CleanerRecv
    \/ DropVersionStatus
    \/ CleanerClosed

SpecClose == Init /\ [][NextClose]_vars

\* one Transaction whose commit runs entry by entry, next to committed
\* writes and to a reader taking snapshots; no compaction runs meanwhile
NextCommit ==
    \/ /\ WalRecords < MaxStoreRecords
       /\ \E k \in Keys : Set(k, <<1>>)
    \/ TxnBegin
    \/ /\ cmt.pc = "idle"
       /\ \/ \E k \in Keys : TxnSet(k, <<2>>)
          \/ \E k \in Keys : TxnRemove(k)
    \/ CommitWalLog
    \/ CommitCreateGen
    \/ CommitInsert
    \/ CommitReturn
    \/ ReaderSnapshot
    \/ ReaderDrop

SpecCommit == Init /\ [][NextCommit]_vars

\* one Transaction next to committed writes of one value
NextTxn ==
    \/ /\ WalRecords < MaxStoreRecords
       /\ \E k \in Keys : Set(k, <<1>>)
    \/ /\ WalSwitches < MaxStoreFlush
       /\ \E explicit \in BOOLEAN : CompactorSwap(explicit)
    \/ CompactorRun
    \/ CleanerRecv
    \/ TxnBegin
    \/ \E k \in Keys, v \in {<<>>, <<2>>} : TxnSet(k, v)
    \/ \E k \in Keys : TxnRemove(k)
    \/ /\ WalRecords + Cardinality({k \in Keys : txn.writer_buf[k].has})
              <= MaxStoreRecords
       /\ TxnCommit

SpecTxn == Init /\ [][NextTxn]_vars

(***************************************************************************)
(* block.rs on its own: a BlockBuilder fed with ascending keys, its Blocks *)
(* encoded, possibly damaged, and decoded                                  *)
(***************************************************************************)
MaxBlockEntries == 3
MaxRestart == 2
SmallBlockSize == 3

BlockKeys == {<<1>>, <<1, 1>>, <<1, 2>>, <<2>>}
BlockItems == {ValueFrom(None), ValueFrom(Some(<<>>)), ValueFrom(Some(<<3>>))}
CompressTypes == {"None", "LZ4"}

RECURSIVE SortKeys(_)
\* the keys of S in ascending order
SortKeys(S) ==
    IF S = {} THEN <<>>
    ELSE LET m == CHOOSE x \in S : \A y \in S : BytesCmp(x, y) <= 0
         IN <<m>> \o SortKeys(S \ {m})

InitBlock ==
    /\ StoreInit
    /\ io = IoFactoryNew
    /\ \E S \in SUBSET BlockKeys, ri \in 1..MaxRestart,
          bs \in {SmallBlockSize, DEFAULT_BLOCK_SIZE} :
          /\ S # {}
          /\ Cardinality(S) <= MaxBlockEntries
          /\ \E f \in [S -> BlockItems] :
                 bkv = [vec_kv |-> [i \in 1..Cardinality(S) |->
                                       [key |-> SortKeys(S)[i],
                                        item |-> f[SortKeys(S)[i]]]],
                        options |-> [block_size |-> bs,
                                     compress_type |-> "None",
                                     data_restart_interval |-> ri,
                                     index_restart_interval |->
                                         DEFAULT_INDEX_RESTART_INTERVAL]]
    /\ blk = <<>>
    /\ bbuf = NoBuf
    /\ bdec = NoResult
    /\ sst = NoBuf
    /\ sq = NoResult
    /\ rec = NoResult

\* builder.add for every key-value, then build_
BlockBuild ==
    /\ blk = <<>>
    /\ blk' = build_(BuilderAddAll(BlockBuilderNew(bkv.options), bkv.vec_kv)).vec_block
    /\ UNCHANGED <<storeVars, rec, io, bkv, bbuf, bdec, sst, sq>>

\* block.encode(compress_type) on one of the Blocks built
BlockEncode(i, compress_type) ==
    /\ ~bbuf.set
    /\ i \in DOMAIN blk
    /\ bbuf' = [set |-> TRUE, index |-> i, compress_type |-> compress_type,
                bytes |-> encode(blk[i].block, compress_type),
                damaged |-> FALSE]
    /\ UNCHANGED <<storeVars, rec, io, bkv, blk, bdec, sst, sq>>

\* the stored bytes are damaged: one bit of the byte at position p flips
BlockDamage(p) ==
    /\ bbuf.set
    /\ ~bbuf.damaged
    /\ ~bdec.set
    /\ bbuf.compress_type = "None"
    /\ p \in DOMAIN bbuf.bytes
    /\ bbuf' = [bbuf EXCEPT !.bytes[p] = Xor(@, 1), !.damaged = TRUE]
    /\ UNCHANGED <<storeVars, rec, io, bkv, blk, bdec, sst, sq>>

\* Block::<Value>::decode(bytes, compress_type)
BlockDecode ==
    /\ bbuf.set
    /\ ~bdec.set
    /\ bdec' = [set |-> TRUE,
                result |-> decode("Value", bbuf.bytes, bbuf.compress_type)]
    /\ UNCHANGED <<storeVars, rec, io, bkv, blk, bbuf, sst, sq>>

NextBlock ==
    \/ BlockBuild
    \/ \E i \in 1..MaxBlockEntries, c \in CompressTypes : BlockEncode(i, c)
    \/ \E p \in 1..(4 * MaxBlockEntries + 8) : BlockDamage(p)
    \/ BlockDecode

SpecBlock == InitBlock /\ [][NextBlock]_vars

(***************************************************************************)
(* BlockBuilder fed with keys in any order, one add at a time              *)
(***************************************************************************)
\* BlockBuf::add, the assertion: it is made only when the buffer holds a key
\* (if let Some(last_key) = self.last_key())
AssertFails(buf, kv) ==
    /\ buf.vec_key_value # <<>>
    /\ BytesCmp(kv.key, buf.vec_key_value[Len(buf.vec_key_value)].key) <= 0

InitOrder ==
    /\ StoreInit
    /\ io = IoFactoryNew
    /\ \E n \in 1..MaxBlockEntries, bs \in {SmallBlockSize, DEFAULT_BLOCK_SIZE} :
          \E keys \in [1..n -> BlockKeys] :
              bkv = [vec_kv |-> [i \in 1..n |->
                                    [key |-> keys[i],
                                     item |-> ValueFrom(Some(<<3>>))]],
                     options |-> [block_size |-> bs,
                                  compress_type |-> "None",
                                  data_restart_interval |-> 1,
                                  index_restart_interval |->
                                      DEFAULT_INDEX_RESTART_INTERVAL]]
    /\ blk = <<>>
    /\ bbuf = NoBuf
    /\ bdec = NoResult
    /\ sst = NoBuf
    /\ sq = NoResult
    /\ rec = NoResult

\* BlockBuilder::new
OrderNew ==
    /\ ~bbuf.set
    /\ bbuf' = [set |-> TRUE, builder |-> BlockBuilderNew(bkv.options),
                added |-> <<>>, panicked |-> FALSE]
    /\ UNCHANGED <<storeVars, rec, io, bkv, blk, bdec, sst, sq>>

\* BlockBuilder::add of the next key-value: BlockBuf::add with its
\* assertion, then build_ when the buffer is out of bytes
OrderAdd ==
    /\ bbuf.set
    /\ ~bbuf.panicked
    /\ Len(bbuf.added) < Len(bkv.vec_kv)
    /\ LET kv == bkv.vec_kv[Len(bbuf.added) + 1]
       IN bbuf' = IF AssertFails(bbuf.builder.buf, kv)
                  THEN [bbuf EXCEPT !.panicked = TRUE]
                  ELSE [bbuf EXCEPT !.builder = BuilderAdd(@, kv),
                                    !.added = Append(@, kv.key)]
    /\ UNCHANGED <<storeVars, rec, io, bkv, blk, bdec, sst, sq>>

NextOrder ==
    \/ OrderNew
    \/ OrderAdd

SpecOrder == InitOrder /\ [][NextOrder]_vars

(***************************************************************************)
(* ss_table.rs on its own: an SSTable created from an ordered list, read   *)
(* through the handle of create_for_mem_table and through load_from_file.  *)
(* Footer and MetaBlock are kept as records; the GrowableBloom filter is   *)
(* the set of keys it answers true for: the inserted keys and any others.  *)
(***************************************************************************)
MaxSstEntries == 2

SstProbeKeys == BlockKeys \cup {<<0>>, <<1, 1, 1>>, <<3>>}

\* SSTable::create_for_mem_table: the file written
create_for_mem_table(vec_mem_data, options, level, false_positives) ==
    LET builder == BuilderAddAll(
                       BlockBuilderNew([options EXCEPT !.compress_type = "LZ4"]),
                       [i \in DOMAIN vec_mem_data |->
                           [key |-> vec_mem_data[i].key,
                            item |-> ValueFrom(vec_mem_data[i].value)]])
        built == build(builder)
    IN [set |-> TRUE,
        loaded |-> FALSE,
        bytes |-> built.blocks_bytes \o built.indexes_bytes,
        meta |-> [filter |-> {vec_mem_data[i].key : i \in DOMAIN vec_mem_data}
                                 \cup false_positives,
                  len |-> Len(vec_mem_data),
                  index_restart_interval |-> options.index_restart_interval,
                  data_restart_interval |-> options.data_restart_interval],
        footer |-> [level |-> level,
                    index_offset |-> Len(built.blocks_bytes),
                    index_len |-> Len(built.indexes_bytes)]]

\* SSTable::loading_block: seek(offset), read_exact(len), Block::decode
loading_block(kind, bytes, offset, len, compress_type) ==
    IF offset + len > Len(bytes) THEN Err("Io")
    ELSE decode(kind, SubSeq(bytes, offset + 1, offset + len), compress_type)

\* SSTable::query_with_key, the block cache left out: it holds what
\* loading_block returned for the same gen and Index
SSTableQuery(table, key) ==
    IF key \in table.meta.filter
    THEN LET index_block == loading_block("Index", table.bytes,
                                          table.footer.index_offset,
                                          table.footer.index_len, "None")
         IN IF ~index_block.ok THEN index_block
            ELSE LET index == find_with_upper(index_block.value, key)
                 IN IF index.panic THEN Err("panic")
                    ELSE LET data_block ==
                                 loading_block("Value", table.bytes,
                                               index.item.offset,
                                               index.item.len, "LZ4")
                         IN IF ~data_block.ok THEN data_block
                            ELSE Ok(find(data_block.value, key))
    ELSE Ok(None)

InitSst ==
    /\ StoreInit
    /\ io = IoFactoryNew
    /\ \E S \in SUBSET BlockKeys, ri \in 1..MaxRestart,
          bs \in {SmallBlockSize, DEFAULT_BLOCK_SIZE} :
          /\ S # {}
          /\ Cardinality(S) <= MaxSstEntries
          /\ \E f \in [S -> {None, Some(<<>>), Some(<<3>>)}] :
                 bkv = [vec_kv |-> [i \in 1..Cardinality(S) |->
                                       [key |-> SortKeys(S)[i],
                                        value |-> f[SortKeys(S)[i]]]],
                        options |-> [block_size |-> bs,
                                     compress_type |-> "None",
                                     data_restart_interval |-> ri,
                                     index_restart_interval |->
                                         DEFAULT_INDEX_RESTART_INTERVAL]]
    /\ blk = <<>>
    /\ bbuf = NoBuf
    /\ bdec = NoResult
    /\ sst = NoBuf
    /\ sq = NoResult
    /\ rec = NoResult

\* SSTable::create_for_mem_table(config, 1, factory, vec_data, 0, io_type)
SstCreate(false_positives) ==
    /\ ~sst.set
    /\ false_positives \cap {bkv.vec_kv[i].key : i \in DOMAIN bkv.vec_kv} = {}
    /\ sst' = create_for_mem_table(bkv.vec_kv, bkv.options, LEVEL_0, false_positives)
    /\ UNCHANGED <<storeVars, rec, io, bkv, blk, bbuf, bdec, sq>>

\* drop(ss_table); SSTable::load_from_file(reader): the footer and the meta
\* block are read back from the file
SstLoad ==
    /\ sst.set
    /\ ~sst.loaded
    /\ ~sq.set
    /\ sst' = [sst EXCEPT !.loaded = TRUE]
    /\ UNCHANGED <<storeVars, rec, io, bkv, blk, bbuf, bdec, sq>>

\* ss_table.query_with_key(key, cache)
SstQuery(key) ==
    /\ sst.set
    /\ ~sq.set
    /\ sq' = [set |-> TRUE, key |-> key, loaded |-> sst.loaded,
              result |-> SSTableQuery(sst, key)]
    /\ UNCHANGED <<storeVars, rec, io, bkv, blk, bbuf, bdec, sst>>

NextSst ==
    \/ \E fp \in {{}} \cup {{k} : k \in SstProbeKeys} : SstCreate(fp)
    \/ SstLoad
    \/ \E key \in SstProbeKeys : SstQuery(key)

SpecSst == InitSst /\ [][NextSst]_vars

(***************************************************************************)
(* io/mod.rs on its own: one IoFactory, writers of every IoType on a few   *)
(* gens, clean and exists.  DirectIoWriter and MemIoWriter write through   *)
(* to their file; a BufIoWriter keeps the bytes until flush.  A writer     *)
(* whose file was removed keeps writing to the file it opened, which is no *)
(* longer in the directory or in mem_files.                                *)
(***************************************************************************)
IoGens == 1..MaxIoGen

IoCall(op, gen, io_type, ok, value) ==
    [op |-> op, gen |-> gen, io_type |-> io_type, ok |-> ok, value |-> value]

\* the file of writer w receives buf at the writer's position
IoStore(f, w, buf) ==
    IF ~w.linked THEN f
    ELSE IF w.io_type = "Mem"
         THEN [f EXCEPT !.mem_files[w.gen] = WriteAt(@, w.pos, buf)]
         ELSE [f EXCEPT !.disk[w.gen] = WriteAt(@, w.pos, buf)]

\* factory.writer(gen, io_type)
IoWriter(h, gen, io_type) ==
    /\ ~io.writers[h].open
    /\ io' = [writer(io, gen, io_type) EXCEPT
                !.writers[h] = [open |-> TRUE, gen |-> gen, io_type |-> io_type,
                                pos |-> 0, buf |-> <<>>, written |-> FALSE,
                                linked |-> TRUE],
                !.last = IoCall("writer", gen, io_type, TRUE, TRUE)]
    /\ UNCHANGED <<storeVars, rec, bkv, blk, bbuf, bdec, sst, sq>>

\* writer.write(&[b])
IoWrite(h, b) ==
    /\ io.writers[h].open
    /\ io.writers[h].pos + Len(io.writers[h].buf) < MaxIoLen
    /\ LET w == io.writers[h]
       IN io' = IF w.io_type = "Buf"
                THEN [io EXCEPT !.writers[h].buf = Append(@, b),
                                !.writers[h].written = TRUE,
                                !.last = IoCall("write", w.gen, w.io_type, TRUE, TRUE)]
                ELSE [IoStore(io, w, <<b>>) EXCEPT
                                !.writers[h].pos = @ + 1,
                                !.writers[h].written = TRUE,
                                !.last = IoCall("write", w.gen, w.io_type, TRUE, TRUE)]
    /\ UNCHANGED <<storeVars, rec, bkv, blk, bbuf, bdec, sst, sq>>

\* writer.flush()
IoFlush(h) ==
    /\ io.writers[h].open
    /\ LET w == io.writers[h]
       IN io' = [IoStore(io, w, w.buf) EXCEPT
                    !.writers[h].pos = @ + Len(w.buf),
                    !.writers[h].buf = <<>>,
                    !.last = IoCall("flush", w.gen, w.io_type, TRUE, w.written)]
    /\ UNCHANGED <<storeVars, rec, bkv, blk, bbuf, bdec, sst, sq>>

\* the writer is dropped; a BufWriter writes its buffer out when dropped
IoDrop(h) ==
    /\ io.writers[h].open
    /\ LET w == io.writers[h]
       IN io' = [IoStore(io, w, w.buf) EXCEPT
                    !.writers[h] = NoWriter,
                    !.last = NoCall]
    /\ UNCHANGED <<storeVars, rec, bkv, blk, bbuf, bdec, sst, sq>>

\* factory.clean(gen); the writers of the removed file lose it
IoClean(gen) ==
    /\ LET r == clean(io, gen)
           in_mem == gen \in DOMAIN io.mem_files
           lost(w) == /\ w.open
                      /\ w.gen = gen
                      /\ r.ok
                      /\ (w.io_type = "Mem") <=> in_mem
       IN io' = [r.f EXCEPT
                    !.writers = [h \in 1..MaxWriters |->
                                    IF lost(@[h]) THEN [@[h] EXCEPT !.linked = FALSE]
                                    ELSE @[h]],
                    !.last = IoCall("clean", gen, "", r.ok, r.ok)]
    /\ UNCHANGED <<storeVars, rec, bkv, blk, bbuf, bdec, sst, sq>>

\* factory.exists(gen)
IoExists(gen) ==
    /\ io' = [io EXCEPT !.last = IoCall("exists", gen, "", TRUE, exists(io, gen))]
    /\ UNCHANGED <<storeVars, rec, bkv, blk, bbuf, bdec, sst, sq>>

NextIo ==
    \/ \E h \in 1..MaxWriters, gen \in IoGens, io_type \in IoTypes :
           IoWriter(h, gen, io_type)
    \/ \E h \in 1..MaxWriters : IoWrite(h, 1)
    \/ \E h \in 1..MaxWriters : IoFlush(h)
    \/ \E h \in 1..MaxWriters : IoDrop(h)
    \/ \E gen \in IoGens : IoClean(gen)
    \/ \E gen \in IoGens : IoExists(gen)

SpecIo == Init /\ [][NextIo]_vars

(***************************************************************************)
(* Properties                                                              *)
(***************************************************************************)
\* gen g appears in the level layout of a Version that has not been dropped
Listed(g) ==
    \E id \in DOMAIN versions : \E l \in Levels :
        \E i \in DOMAIN versions[id].level_slice[l] :
            versions[id].level_slice[l][i].gen = g

\* what the most recent mutation of `key` dictates for get
Expected(key) == IF lastMut[key].written THEN lastMut[key].val ELSE None

\* no entry of `key` is left in the MemTable: its mutations were flushed
Flushed(key) == \A e \in mem \cup immut : e.key # key

\* C1: while a Version that lists gen g is alive, the Cleaner neither removes
\* g from the SST loader nor deletes g's file.
C1_CleanerSparesListedFiles ==
    [][\A g \in (loader \ loader') \cup (DOMAIN sstFiles \ DOMAIN sstFiles') :
           ~Listed(g)]_vars

\* C2: after any sequence of set, remove, flush and compactions, get(key)
\* returns what the most recent mutation of the key dictates.
C2_GetMostRecentMutation == \A k \in Keys : Get(k) = Expected(k)

\* C3: in every Version, the scopes of each level 1..6 are sorted ascending
\* by start key and pairwise disjoint.
C3_LevelsSortedDisjoint ==
    \A id \in DOMAIN versions : \A l \in 1..(NumLevels - 1) :
        LET lv == versions[id].level_slice[l]
        IN \A i \in DOMAIN lv : \A j \in DOMAIN lv :
               i < j => lv[i].end < lv[j].start

\* C4: after set(k, v) followed by remove(k), with any flushes and
\* compactions, get(k) returns None and a further remove(k) fails with
\* KeyNotFound.
C4_RemovedKeyGone ==
    /\ \A k \in Keys : Removed(k) => ~Get(k).some
    /\ (lastRes.op = "remove" /\ lastRes.removed) => lastRes.res = "KeyNotFound"

\* C5: after set(k, v1) followed by set(k, v2), with any flushes, get(k)
\* returns Some(v2).
C5_OverwriteNewest ==
    \A k \in Keys : lastMut[k].over => Get(k) = lastMut[k].val

\* C6: after set(k, v) and a flush, for every byte string v, the empty one
\* included, get(k) returns Some(v).
C6_FlushedValueReadable ==
    \A k \in Keys :
        (lastMut[k].written /\ lastMut[k].val.some /\ Flushed(k))
            => Get(k) = lastMut[k].val

\* C7: every gen in the level layout of a Version that has not been dropped
\* is present in the SST loader map.
C7_ListedGensLoaded ==
    \A id \in DOMAIN versions : \A l \in Levels :
        \A i \in DOMAIN versions[id].level_slice[l] :
            versions[id].level_slice[l][i].gen \in loader

\* the level 0 NewFile edit of the flush that wrote SST `g` is in the
\* version log
NewFileLogged(g) ==
    \E i \in DOMAIN verLog :
        /\ verLog[i].type = "NewFile"
        /\ verLog[i].level = LEVEL_0
        /\ g \in ScopeGens(verLog[i].scopes)

Covers(records, values) ==
    /\ DOMAIN values = {records[i].key : i \in DOMAIN records}
    /\ \A k \in DOMAIN values :
           values[k] = records[SetMax({i \in DOMAIN records :
                                           records[i].key = k})].val

TxnOnlyKeysHidden ==
    \A k \in Keys :
        (txn.active /\ txn.writer_buf[k].has /\ ~lastMut[k].written)
            => Get(k) = None

\* buffering leaves every store read as it was; commit makes every buffered
\* set readable
TxnStepVisibility ==
    /\ (txn.active /\ txn'.active /\ txn'.writer_buf # txn.writer_buf) =>
           \A k \in Keys : Get(k)' = Get(k)
    /\ (txn.active /\ ~txn'.active) =>
           \A k \in Keys :
               (txn.writer_buf[k].has /\ txn.writer_buf[k].val.some) =>
                   Get(k)' = txn.writer_buf[k].val

C10_TxnReadsOwnWrites ==
    /\ \A k \in Keys :
           (txn.active /\ txn.writer_buf[k].has)
               => TxnGet(k) = txn.writer_buf[k].val
    /\ (lastRes.op = "txn_remove" /\ lastRes.removed)
           => lastRes.res = "KeyNotFound"

\* gen g was named by a DeleteFile edit of the version log
DeleteLogged(g) ==
    \E i \in DOMAIN verLog :
        verLog[i].type = "DeleteFile" /\ g \in Range(verLog[i].gens)

\* g was removed from the layout and no Version that is alive lists it, but
\* the loader still holds it
Orphan(g) == g \in loader /\ ~Listed(g) /\ DeleteLogged(g)

\* the version numbers under which g waits for the Cleaner: in its queue or
\* in an Add tag still in the channel
HolderNums(g) ==
    {del_gens[i].num : i \in {j \in DOMAIN del_gens : g \in Range(del_gens[j].gens)}}
        \cup {chan[i].num : i \in {j \in DOMAIN chan :
                                      chan[j].type = "Add" /\ g \in Range(chan[j].gens)}}

\* g is an orphan and the Versions under whose numbers it waits have been
\* dropped, together with every older Version
Released(g) ==
    /\ Orphan(g)
    /\ HolderNums(g) # {}
    /\ \A id \in DOMAIN versions : \A n \in HolderNums(g) : versions[id].num > n

C12_HeldVersionsFrozen ==
    [][\A id \in DOMAIN versions :
           /\ (refs[id] > 0 /\ id \in DOMAIN versions')
                  => versions'[id] = versions[id]
           /\ (refs[id] > 0 /\ cpc = "apply" /\ cpc' = "idle")
                  => (id \in DOMAIN versions' /\ versions'[id] = versions[id])]_vars

\* a reader holds a Version whose layout differs from the current one
C12_Witness ==
    \E id \in DOMAIN versions :
        /\ id # current
        /\ refs[id] > 0
        /\ versions[id].level_slice # versions[current].level_slice
        /\ versions[id].num < versions[current].num

\* C13: whatever edits log_and_apply has applied, loading the version log
\* again (apply with is_init) succeeds and gives the level layout and the
\* statistics of the live Version.
C13_ReloadEqualsLive ==
    LET v == load_from_log(verLog, sstFiles)
    IN /\ v.ok
       /\ v.level_slice = versions[current].level_slice
       /\ v.len = versions[current].len

\* the key has no visible value: never written, or a remove of it was the
\* latest mutation
NoVisibleValue(key) == ~lastMut[key].written \/ Removed(key)

\* C14: remove(k) on a key with no visible value (never set, or already
\* removed) returns KeyNotFound and changes neither the WAL nor the MemTable.
C14_RemoveAbsentWritesNothing ==
    [][\A k \in Keys :
           (NoVisibleValue(k) /\ Remove(k))
               => /\ lastRes'.res = "KeyNotFound"
                  /\ wal' = wal
                  /\ mem' = mem
                  /\ immut' = immut]_vars

\* C15: for every Block, whatever its entries, its restart interval and its
\* values (present, present and empty, absent), and for both compress types,
\* Block::decode(block.encode(c), c) is the Block.
C15_BlockRoundTrip ==
    (bdec.set /\ ~bbuf.damaged)
        => (bdec.result.ok /\ bdec.result.value = blk[bbuf.index].block)

\* the code stored in the last four bytes is the CRC-32 of the bytes before
CrcMatches(bytes) ==
    crc32(SubSeq(bytes, 1, Len(bytes) - CRC_SIZE))
        = U32From(SubSeq(bytes, Len(bytes) - CRC_SIZE + 1, Len(bytes)))

\* C16: decoding bytes whose last four bytes are not the CRC-32 of the bytes
\* before them fails with CrcMisMatch; when they are, decoding succeeds.
C16_CrcChecked ==
    (bdec.set /\ bbuf.compress_type = "None")
        => IF CrcMatches(bbuf.bytes) THEN bdec.result.ok
           ELSE (~bdec.result.ok /\ bdec.result.err = "CrcMisMatch")

\* the keys looked up in a Block: the keys of the builder and keys next to
\* them (shorter, longer, smaller, greater)
ProbeKeys ==
    {<<>>} \cup {<<a>> : a \in 0..3} \cup {<<a, b>> : a \in 0..3, b \in 0..3}
        \cup {<<a, b, c>> : a \in 1..2, b \in 1..2, c \in 1..2}

\* the positions of bkv.vec_kv that BlockBuilder put into its i-th Block
BlockPositions(i) ==
    {j \in DOMAIN bkv.vec_kv :
        /\ BytesCmp(bkv.vec_kv[j].key, blk[i].last_key) <= 0
        /\ i > 1 => BytesCmp(bkv.vec_kv[j].key, blk[i - 1].last_key) > 0}

\* C17: in a Block that BlockBuilder built from strictly ascending keys, with
\* prefix compression, find(k) is the stored value for every key of the Block
\* and None for every other key.
C17_FindInBuiltBlock ==
    \A i \in DOMAIN blk : \A key \in ProbeKeys :
        find(blk[i].block, key) =
            IF \E j \in BlockPositions(i) : bkv.vec_kv[j].key = key
            THEN bkv.vec_kv[CHOOSE j \in BlockPositions(i) :
                                bkv.vec_kv[j].key = key].item.bytes
            ELSE None

\* a Block of three entries, one of them prefix-compressed, holding a value
\* and a tombstone
C17_Witness ==
    \E i \in DOMAIN blk :
        LET es == blk[i].block.vec_entry
        IN /\ Len(es) = 3
           /\ \E e \in DOMAIN es : es[e].shared_len > 0
           /\ \E e \in DOMAIN es : es[e].item.bytes = Some(<<3>>)
           /\ \E e \in DOMAIN es : es[e].item.bytes = None

\* the value the ordered list of the SSTable stores for `key`, None when the
\* key is not in the list
SstStored(key) ==
    IF \E i \in DOMAIN bkv.vec_kv : bkv.vec_kv[i].key = key
    THEN bkv.vec_kv[CHOOSE i \in DOMAIN bkv.vec_kv : bkv.vec_kv[i].key = key].value
    ELSE None

\* C18: for an SSTable created from an ordered list, query_with_key(key)
\* returns the stored value for every key of the list and Ok(None), without
\* error or panic, for every other key, whatever the bloom filter answers;
\* the same holds for the table opened with load_from_file.
C18_SstQuery ==
    sq.set => sq.result = Ok(SstStored(sq.key))

C20_ExistsAndClean ==
    /\ (io.last.op = "flush" /\ io.last.ok /\ io.last.value)
           => exists(io, io.last.gen)
    /\ (io.last.op = "clean" /\ io.last.ok)
           => /\ ~exists(io, io.last.gen)
              /\ io.last.gen \notin DOMAIN io.disk
              /\ io.last.gen \notin DOMAIN io.mem_files

\* the newest entry of key k that a reader with snapshot seq_id sees in the
\* MemTable is the entry of the commit or a later one
ReaderSeesCommit(k, seq_id) ==
    LET hits == {e \in mem \cup immut : e.key = k /\ e.seq <= seq_id}
        top == CHOOSE e \in hits : \A f \in hits : f.seq <= e.seq
    IN /\ hits # {}
       /\ top.seq >= cmt.last.seq_id
       /\ top.seq = cmt.last.seq_id => top.val = cmt.last.buf[k].val

\* C21: a commit that has returned has inserted every buffered entry under
\* one seq_id greater than the begin seq_id, one entry per user key, and a
\* reader whose snapshot was taken after the return sees all of them
C21_CommitAtomic ==
    LET l == cmt.last
        written == {k \in Keys : l.buf[k].has}
    IN l.set =>
         /\ l.seq_id > l.begin
         /\ \A k \in written :
                [key |-> k, seq |-> l.seq_id, val |-> l.buf[k].val] \in mem
         /\ Cardinality({e \in mem : e.seq = l.seq_id}) = Cardinality(written)
         /\ (cmt.rd.set /\ cmt.rd.after)
                => \A k \in written : ReaderSeesCommit(k, cmt.rd.seq_id)

\* a commit of two keys has returned and a reader took its snapshot afterwards
C21_Witness ==
    /\ cmt.last.set
    /\ \A k \in Keys : cmt.last.buf[k].has
    /\ cmt.rd.set
    /\ cmt.rd.after

\* the queues of up to MaxQueue entries, in any order of version numbers
Queues ==
    UNION {[1..n -> [num : 1..MaxQueue, gens : {<<>>, <<1>>, <<2>>, <<1, 2>>}]] :
              n \in 0..MaxQueue}

\* the drain of Cleaner::listen empties any queue and deletes all its gens
DrainsAnyQueue ==
    \A q \in Queues :
        LET c == clean_all([del_gens |-> q, loader |-> {1, 2, 3},
                            sstFiles |-> [g \in {1, 2, 3} |-> SstFile(LEVEL_0, EmptyMap)]],
                           [i \in DOMAIN q |-> q[i].num])
            gens == UNION {Range(q[i].gens) : i \in DOMAIN q}
        IN /\ c.del_gens = <<>>
           /\ c.loader = {1, 2, 3} \ gens
           /\ DOMAIN c.sstFiles = {1, 2, 3} \ gens

\* C22: once every sender is dropped (VersionStatus and all Versions gone),
\* the Cleaner has terminated with an empty queue, and the gens of the
\* entries queued at the close, like every gen a DeleteFile edit queued
\* before, are neither in the loader nor on disk
C22_CleanerDrains ==
    (run.cleaner = "terminated")
        => /\ del_gens = <<>>
           /\ chan = <<>>
           /\ \A i \in DOMAIN run.left : \A g \in Range(run.left[i].gens) :
                  g \notin loader /\ g \notin DOMAIN sstFiles
           /\ \A g \in 1..MaxClock :
                  DeleteLogged(g) => (g \notin loader /\ g \notin DOMAIN sstFiles)
           /\ DrainsAnyQueue

\* the Cleaner has terminated after a run whose compactions queued files
C22_Witness ==
    /\ run.cleaner = "terminated"
    /\ \E g \in 1..MaxClock : DeleteLogged(g)

\* C23: when two calls of log_and_apply have run, concurrently or not, the
\* current Version holds the edits of both and the two published Versions
\* have distinct version_num, the later one the greater
C23_LogAndApplyExclusive ==
    (\A p \in Callers : la[p].pc = "done")
        => /\ \A p \in Callers :
                  la[p].gen \in ScopeGens(versions[current].level_slice[LEVEL_0])
           /\ \A p, q \in Callers : p # q => la[p].num # la[q].num
           /\ \E p \in Callers : versions[current].num = la[p].num
           /\ \A p \in Callers : la[p].num <= versions[current].num

\* C24: Version.find(key) returns the value of the shallowest SST that
\* contains the key: level 0 newest first, then levels 1..6, going on to the
\* next level on a miss, so a key stored only in a level L >= 2 is found even
\* when the levels 1..L-1 are not empty
C24_FindShallowest ==
    lastRes.op = "find"
        => lastRes.res \in ShallowestValues(versions[current], lastRes.key,
                                            loader, sstFiles)

\* the newest record of `key` in read order (level 0 newest to oldest, then
\* the levels 1..6) is a tombstone
NewestIsTombstone(version, key, ld, files) ==
    /\ \E l \in Levels : Holding(version, key, l, ld, files) # {}
    /\ ShallowestValues(version, key, ld, files) = {None}

\* C25: in the SST read path a tombstone is a hit: when the newest SST record
\* of a key is a tombstone the search stops there and the key reads as
\* removed, whatever older SSTs of level 0 or deeper levels hold
C25_TombstoneHit ==
    (/\ lastRes.op = "find"
     /\ NewestIsTombstone(versions[current], lastRes.key, loader, sstFiles))
        => lastRes.res = None

\* the edits of one major compaction step start at position i of the version
\* log: the NewFile of a level above 0, then the two DeleteFile
MajorStepAt(i) ==
    /\ i \in DOMAIN verLog
    /\ verLog[i].type = "NewFile"
    /\ verLog[i].level > LEVEL_0

\* C26: a major compaction step at level L emits NewFile(new SSTs, L+1,
\* index), DeleteFile(gens of A, L) and DeleteFile(gens of B, L+1), and once
\* the edits are applied no merged input SST is left in level L or L+1 of the
\* new Version
C26_MajorStepEdits ==
    \A i \in DOMAIN verLog :
        MajorStepAt(i) =>
            LET L == verLog[i].level - 1
                inputs == Range(verLog[i + 1].gens) \cup Range(verLog[i + 2].gens)
                now == versions[current].level_slice
            IN /\ verLog[i + 1].type = "DeleteFile"
               /\ verLog[i + 1].level = L
               /\ verLog[i + 2].type = "DeleteFile"
               /\ verLog[i + 2].level = L + 1
               /\ inputs \cap (ScopeGens(now[L]) \cup ScopeGens(now[L + 1])) = {}

\* the step of major_compaction whose NewFile is at position i of the edits
\* gathered so far
StepAt(i) ==
    /\ i \in DOMAIN ctask.edits
    /\ ctask.edits[i].type = "NewFile"
    /\ ctask.edits[i].level > LEVEL_0

\* the number of major steps among the first i edits
StepNo(i) == Cardinality({j \in 1..i : StepAt(j)})

\* C27: in every major compaction step, every SST whose gen is put in a
\* DeleteFile edit is among the SSTs whose entries are read and merged into
\* the new SSTs
C27_DeletedAreMerged ==
    \A i \in DOMAIN ctask.edits :
        StepAt(i) =>
            (Range(ctask.edits[i + 1].gens) \cup Range(ctask.edits[i + 2].gens))
                \subseteq ctask.loaded[StepNo(i)]

\* C28: the merge of a major compaction step outputs its entries strictly
\* ascending by user key, one entry per key, and for a key present in several
\* input SSTs the entry kept is the newest mutation of the key, the one a read
\* of the inputs would have returned before the compaction
C28_MergeKeepsNewest ==
    \A i \in DOMAIN ctask.edits :
        StepAt(i) =>
            LET sc == ctask.edits[i].scopes
                inputs == ctask.loaded[StepNo(i)]
            IN /\ \A a \in DOMAIN sc : \A b \in DOMAIN sc :
                      a < b => sc[a].end < sc[b].start
               /\ \A a \in DOMAIN sc :
                      \A k \in DOMAIN sstFiles[sc[a].gen].data :
                          ValueDecode(sstFiles[sc[a].gen].data[k]).bytes
                              \in ShallowestValues(versions[current], k,
                                                   inputs, sstFiles)

\* a call of major_compaction is running
InMajorCall == cpc \in {"major", "apply"}

\* a step that publishes a Version does so from the log_and_apply of the
\* call, with the edits of the flush and of every step of the call, logged
\* and applied as one batch
PublishesBatch ==
    current' # current =>
        /\ cpc = "apply"
        /\ ~InMajorCall'
        /\ current' \notin DOMAIN versions
        /\ StepNo(Len(ctask.edits)) = Len(ctask.loaded)
        /\ verLog' = verLog \o ctask.edits
        /\ versions'[current'].level_slice =
               ApplyEdits(versions[current].level_slice, <<>>,
                          ctask.edits).level_slice

\* the steps of a call change no Version and log nothing, and the Versions
\* that readers hold never change
StepsUnseen ==
    /\ \A id \in DOMAIN versions \cap DOMAIN versions' :
           versions'[id] = versions[id]
    /\ (DOMAIN versions' \ DOMAIN versions) \subseteq {current'}
    /\ (cpc = "major" \/ cpc' = "major")
           => UNCHANGED <<versions, current, verLog>>

MajorStep == cpc = "major" /\ Len(ctask'.loaded) = Len(ctask.loaded) + 1

\* the call of major_compaction returned LevelOver
LevelOverReturned ==
    lastRes'.op = "major" /\ lastRes'.res = "LevelOver" /\ lastRes' # lastRes

Intersect(a, b) == a.start <= b.end /\ b.start <= a.end

\* C31: Scope.meet(a, b) is true exactly when the inclusive ranges of a and b
\* intersect; it is symmetric, and true when one range strictly contains the
\* other
C31_MeetIsIntersection ==
    lastRes.op = "meet" =>
        LET a == lastRes.self
            b == lastRes.target
        IN /\ lastRes.res <=> Intersect(a, b)
           /\ lastRes.res <=> meet(b, a)
           /\ (b.start < a.start /\ a.end < b.end) => lastRes.res
           /\ (a.start < b.start /\ b.end < a.end) => lastRes.res

\* the scopes of a level are listed with strictly ascending gens
AscendingGen(lv) ==
    \A i \in DOMAIN lv : \A j \in DOMAIN lv : i < j => lv[i].gen < lv[j].gen

CompactionFails ==
    \/ CompactorMinorFails
    \/ \E written \in 0..3 : LogAndApplyFails(written)
    \/ cpc = "major" /\ cpc' = "idle"
    \/ cpc = "apply" /\ ApplyFails(ctask.edits, loader) /\ cpc' = "idle"

\* the layout a restart rebuilds from the version log
Rebuilt(vec_log, files) == load_from_log(vec_log, files).level_slice

\* C33: a compaction that fails leaves the current Version as it was and
\* none of its edits is applied, neither to the Version in memory nor to the
\* Version a restart rebuilds from the version log
C33_FailedCompactionLeavesNoEdit ==
    [][CompactionFails =>
          /\ versions' = versions
          /\ current' = current
          /\ Rebuilt(verLog', sstFiles') = Rebuilt(verLog, sstFiles)]_vars

\* MemTable::swap has acted: the mutable table became the immutable one
Swapped == mem # {} /\ mem' = {} /\ immut' = mem

C35_RepeatableGet ==
    lastRes.op = "txn_get" => lastRes.res = lastRes.first

\* the records of WAL segment gen are the entries of the table m, one
\* record per entry
SegmentCovers(gen, m) ==
    /\ Len(wal[gen]) = Cardinality(m)
    /\ {[key |-> wal[gen][i].key, val |-> wal[gen][i].val] : i \in DOMAIN wal[gen]}
           = {[key |-> e.key, val |-> e.val] : e \in m}

\* C36: the WAL switch of a flush is atomic with the swap for writers: once
\* both are done the active segment holds the entries of the mutable table
\* and the replaced segment those of the immutable table, no entry more
C36_SwitchAtomicWithSwap ==
    /\ cpc # "gen" => SegmentCovers(walGen, mem)
    /\ cpc = "minor" => SegmentCovers(ctask.gen, immut)

RECURSIVE QueueGens(_)
\* the gens held in the entries of the Cleaner's queue, entry after entry
QueueGens(dg) ==
    IF dg = <<>> THEN <<>> ELSE Head(dg).gens \o QueueGens(Tail(dg))

\* C37: a gen announced to the Cleaner is held in exactly one entry of its
\* queue until it is deleted: no gen is held twice, and no gen that is held
\* has been deleted already
C37_QueueConservation ==
    LET held == QueueGens(del_gens)
    IN /\ \A i, j \in DOMAIN held : held[i] = held[j] => i = j
       /\ \A i \in DOMAIN held : held[i] \in DOMAIN sstFiles

RECURSIVE DeletedGens(_)
\* the gens of the DeleteFile edits of a batch, edit after edit
DeletedGens(edits) ==
    IF edits = <<>> THEN <<>>
    ELSE (IF Head(edits).type = "DeleteFile" THEN Head(edits).gens ELSE <<>>)
             \o DeletedGens(Tail(edits))

\* C38: within one call of major_compaction every gen is merged by at most
\* one step and put in at most one DeleteFile edit
C38_SelectedOnce ==
    /\ \A i, j \in DOMAIN ctask.loaded :
           i # j => ctask.loaded[i] \cap ctask.loaded[j] = {}
    /\ LET gens == DeletedGens(ctask.edits)
       IN \A i, j \in DOMAIN gens : gens[i] = gens[j] => i = j

\* C39: BlockBuilder.add accepts a key only when it is strictly greater than
\* the key added before it, at every position of the input: the keys that
\* were added without a failed assertion are strictly ascending
C39_AddAscending ==
    bbuf.set =>
        \A i \in DOMAIN bbuf.added :
            i > 1 => BytesCmp(bbuf.added[i], bbuf.added[i - 1]) > 0

\* the SSTable of gen is the newest one that holds the key
NewestHolder(gen, key) ==
    /\ rec.ssts[gen][key].has
    /\ \A g \in DOMAIN rec.ssts : g > gen => ~rec.ssts[g][key].has

\* C40: when open succeeds after SSTables failed to load, every key of such
\* an SSTable is read with its value: for the newest SSTable that holds the
\* key, the MemTable gives the value of that SSTable or the value of the
\* last set of the key
C40_ReloadedReadable ==
    (rec.set /\ rec.phase = "open") =>
        \A gen \in rec.lost : \A k \in Keys :
            NewestHolder(gen, k) =>
                /\ rec.mem[k].has
                /\ rec.mem[k].val \in {rec.ssts[gen][k].val, rec.latest[k].val}

=========================================================================
